---- MODULE Spec2Model ----
(***************************************************************************)
(* Model of the we-ne grant program (programs/grant_program/src/lib.rs):   *)
(* grant accounts, vaults, claim receipts, the proof-of-process (PoP)      *)
(* hash chain and the claim-admission handlers.                            *)
(*                                                                         *)
(* A 32-byte digest is represented by its preimage (the sequence of parts  *)
(* handed to hashv), i.e. hashv is a collision-free hash; [0u8; 32] is the *)
(* empty sequence.  Public keys are strings.  One transaction is one       *)
(* action: the runtime commits the accounts a handler wrote only when the  *)
(* handler returns Ok, and the outcome is returned to the submitter, who   *)
(* reads it (action Observe) before the next transaction is modelled.      *)
(***************************************************************************)
EXTENDS Integers, Sequences, FiniteSets, TLC

VARIABLES
    now,         \* Clock::get()?.unix_timestamp
    grant,       \* grant PDA  -> Grant account
    vault,       \* grant PDA  -> amount held by the vault token account
    tokens,      \* owner      -> amount held by that owner's token account
    receipts,    \* the ClaimReceipt accounts that exist
    pop_state,   \* grant PDA  -> PopState account
    pop_config,  \* the PopConfig account of the authority
    last,        \* the transaction processed last and its outcome
    accepted,    \* grant PDA  -> the proof message admitted last (history)
    paid         \* <<grant, claimer>> -> number of vault payouts (history)

vars == <<now, grant, vault, tokens, receipts, pop_state, pop_config, last,
          accepted, paid>>

-----------------------------------------------------------------------------
(* Program constants *)

DEFAULT_MONTH_SECONDS == 2592000
POP_MESSAGE_VERSION_V1 == 1
POP_MESSAGE_VERSION_V2 == 2
POP_MESSAGE_LEN_V1 == 1 + 32 + 32 + 8 + 32 + 32 + 32 + 8
POP_MESSAGE_LEN_V2 == 1 + 32 + 32 + 8 + 32 + 32 + 32 + 32 + 8
POP_MAX_SKEW_SECONDS == 600
YEAR_SECONDS == 365 * 24 * 60 * 60

\* u16::MAX, the "same instruction" marker of the ed25519 instruction header
U16_MAX == 65535

\* i64 is modelled with 31 bits, so that every difference of two values is
\* still a representable number; checked_sub overflows past them.
I64_MAX == 1073741823
I64_MIN == -I64_MAX - 1

\* the largest usize of the model
USIZE_MAX == 2147483647

\* 32 bytes that are no signer's key
UNKNOWN_KEY == "unknown"

ED25519_PROGRAM == "Ed25519SigVerify111"
OTHER_PROGRAM == "OtherProgram"

ZERO_HASH == <<>>
hashv(parts) == parts

-----------------------------------------------------------------------------
(* The universe of the model *)

\* bounds
MaxPeriod == 1
MaxFundings == 2
Amount == 2
StartTs == 1000

InitFunds == MaxFundings * Amount

AUTHORITY == "auth"
MINT == "mint"
Claimers == {"r1", "r2"}
Signers == {"s1", "s2"}
GrantIds == {1, 2}

\* the grant PDA of seeds ["grant", authority, mint, grant_id]
GrantPda(grant_id) == IF grant_id = 1 THEN "g1" ELSE "g2"
GrantKeys == {GrantPda(i) : i \in GrantIds}

Periods == 0 .. MaxPeriod
Times ==
    {StartTs - 1}
        \cup {StartTs + k * DEFAULT_MONTH_SECONDS : k \in 0 .. MaxPeriod - 1}
        \cup {StartTs + MaxPeriod * DEFAULT_MONTH_SECONDS + 500}

NoGrant ==
    [exists |-> FALSE, authority |-> "", mint |-> "", grant_id |-> 0,
     amount_per_period |-> 0, period_seconds |-> 0, start_ts |-> 0,
     expires_at |-> 0, merkle_root |-> 0, paused |-> FALSE]

NoPopState ==
    [exists |-> FALSE, grant |-> "", last_global_hash |-> ZERO_HASH,
     last_stream_hash |-> ZERO_HASH, last_period_index |-> 0,
     last_issued_at |-> 0, initialized |-> FALSE]

NoPopConfig == [exists |-> FALSE, authority |-> "", signer_pubkey |-> ""]

NoMessage ==
    [version |-> 0, grant |-> "", claimer |-> "", period_index |-> 0,
     prev_hash |-> ZERO_HASH, stream_prev_hash |-> ZERO_HASH,
     audit_hash |-> ZERO_HASH, entry_hash |-> ZERO_HASH, issued_at |-> 0]

-----------------------------------------------------------------------------
(* Allowlist (Merkle) helpers.  The digests of the allowlist tree are      *)
(* numbers: sha256 of two operands is an injective pairing of them, never  *)
(* zero, and the byte order of two digests is the order of the numbers.    *)

KeyBytes(key) ==
    CASE key = "r1" -> 1
      [] key = "r2" -> 2
      [] key = "r3" -> 3
      [] key = "r4" -> 4
      [] OTHER -> 5

sha256_pair(a, b) == ((a + b) * (a + b + 1)) \div 2 + b + 1

allowlist_leaf(claimer) == sha256_pair(0, KeyBytes(claimer))

\* a fold that always hashes the running value first
RECURSIVE merkle_fold_unsorted(_, _)
merkle_fold_unsorted(computed, proof) ==
    IF proof = <<>> THEN computed
    ELSE merkle_fold_unsorted(sha256_pair(computed, Head(proof)), Tail(proof))

RECURSIVE merkle_fold(_, _)
merkle_fold(computed, proof) ==
    IF proof = <<>> THEN computed
    ELSE LET p == Head(proof)
             left == IF computed <= p THEN computed ELSE p
             right == IF computed <= p THEN p ELSE computed
         IN merkle_fold(sha256_pair(left, right), Tail(proof))

verify_merkle_sorted(root, leaf, proof) == merkle_fold(leaf, proof) = root

-----------------------------------------------------------------------------
(* Arithmetic helpers *)

\* a difference that wraps around instead of overflowing
absolute_i64_diff_wrapping(a, b) ==
    LET d == IF a >= b THEN a - b ELSE b - a
    IN [err |-> "Ok",
        value |-> IF d > I64_MAX THEN d - I64_MAX - I64_MAX - 2 ELSE d]

absolute_i64_diff(a, b) ==
    LET d == IF a >= b THEN a - b ELSE b - a
    IN IF d > I64_MAX THEN [err |-> "MathOverflow", value |-> 0]
       ELSE [err |-> "Ok", value |-> d]

-----------------------------------------------------------------------------
(* Binary message codec.  The signed message is the record of its fields   *)
(* together with its length in bytes; a version-1 message has no           *)
(* audit_hash bytes, whatever the record carries there.                    *)

MessageBytes(fields, len) ==
    [len |-> len, version |-> fields.version, grant |-> fields.grant,
     claimer |-> fields.claimer, period_index |-> fields.period_index,
     prev_hash |-> fields.prev_hash,
     stream_prev_hash |-> fields.stream_prev_hash,
     audit_hash |-> fields.audit_hash, entry_hash |-> fields.entry_hash,
     issued_at |-> fields.issued_at]

\* a decoder that expects the version-1 length whatever the version
parse_pop_message_one_length(message) ==
    IF message.len = 0 THEN [err |-> "InvalidPopMessageLength", msg |-> NoMessage]
    ELSE IF message.version # POP_MESSAGE_VERSION_V1
            /\ message.version # POP_MESSAGE_VERSION_V2
    THEN [err |-> "InvalidPopMessageVersion", msg |-> NoMessage]
    ELSE IF message.len # POP_MESSAGE_LEN_V1
    THEN [err |-> "InvalidPopMessageLength", msg |-> NoMessage]
    ELSE [err |-> "Ok", msg |-> message]

parse_pop_message(message) ==
    IF message.len = 0 THEN [err |-> "InvalidPopMessageLength", msg |-> NoMessage]
    ELSE IF message.version # POP_MESSAGE_VERSION_V1
            /\ message.version # POP_MESSAGE_VERSION_V2
    THEN [err |-> "InvalidPopMessageVersion", msg |-> NoMessage]
    ELSE IF message.len # (IF message.version = POP_MESSAGE_VERSION_V2
                           THEN POP_MESSAGE_LEN_V2 ELSE POP_MESSAGE_LEN_V1)
    THEN [err |-> "InvalidPopMessageLength", msg |-> NoMessage]
    ELSE [err |-> "Ok",
          msg |-> [version |-> message.version,
                   grant |-> message.grant,
                   claimer |-> message.claimer,
                   period_index |-> message.period_index,
                   prev_hash |-> message.prev_hash,
                   stream_prev_hash |-> message.stream_prev_hash,
                   audit_hash |-> IF message.version = POP_MESSAGE_VERSION_V2
                                  THEN message.audit_hash ELSE ZERO_HASH,
                   entry_hash |-> message.entry_hash,
                   issued_at |-> message.issued_at]]

\* an entry hash that leaves issued_at out
pop_entry_hash_untimed(version, prev_hash, stream_prev_hash, audit_hash, grant_key, claimer, period_index, issued_at) ==
    IF version = POP_MESSAGE_VERSION_V1
    THEN [err |-> "Ok",
          value |-> hashv(<<"we-ne:pop:v1", prev_hash, stream_prev_hash,
                            grant_key, claimer, period_index>>)]
    ELSE IF version = POP_MESSAGE_VERSION_V2
    THEN [err |-> "Ok",
          value |-> hashv(<<"we-ne:pop:v2", prev_hash, stream_prev_hash,
                            audit_hash, grant_key, claimer, period_index>>)]
    ELSE [err |-> "InvalidPopMessageVersion", value |-> ZERO_HASH]

pop_entry_hash(version, prev_hash, stream_prev_hash, audit_hash, grant_key, claimer, period_index, issued_at) ==
    IF version = POP_MESSAGE_VERSION_V1
    THEN [err |-> "Ok",
          value |-> hashv(<<"we-ne:pop:v1", prev_hash, stream_prev_hash,
                            grant_key, claimer, period_index, issued_at>>)]
    ELSE IF version = POP_MESSAGE_VERSION_V2
    THEN [err |-> "Ok",
          value |-> hashv(<<"we-ne:pop:v2", prev_hash, stream_prev_hash,
                            audit_hash, grant_key, claimer, period_index,
                            issued_at>>)]
    ELSE [err |-> "InvalidPopMessageVersion", value |-> ZERO_HASH]

-----------------------------------------------------------------------------
(* Signature co-instruction extractor.  ix.data is the header of the       *)
(* ed25519 instruction (its seven u16 fields and the count byte), the      *)
(* length of the data, and its bytes: a function from <<offset, size>> to  *)
(* the key or the message that lies in that range of the data.             *)

\* the bytes of data from start up to end: what the instruction holds
\* there, or bytes that are no key and no message
KeyAt(data, start, end) ==
    IF <<start, end - start>> \in DOMAIN data.bytes
    THEN data.bytes[<<start, end - start>>]
    ELSE UNKNOWN_KEY

MessageAt(data, start, end) ==
    IF <<start, end - start>> \in DOMAIN data.bytes
    THEN data.bytes[<<start, end - start>>]
    ELSE MessageBytes(NoMessage, end - start)

\* an extractor that reads the key and the message where the SDK puts them
extract_ed25519_signer_and_message_fixed_layout(ix) ==
    LET data == ix.data
        bad == [err |-> "InvalidPopSignatureData", signer_pubkey |-> "",
                message_bytes |-> MessageBytes(NoMessage, 0)]
    IN IF data.len < 16 THEN bad
       ELSE IF data.num_signatures # 1 THEN bad
       ELSE IF ~(data.signature_instruction_index = U16_MAX
                 /\ data.public_key_instruction_index = U16_MAX
                 /\ data.message_instruction_index = U16_MAX) THEN bad
       ELSE IF ~(data.signature_offset + 64 <= data.len
                 /\ data.public_key_offset + 32 <= data.len
                 /\ data.message_data_offset + data.message_data_size <= data.len)
       THEN bad
       ELSE [err |-> "Ok", signer_pubkey |-> KeyAt(data, 16, 48),
             message_bytes |->
                 MessageAt(data, 112, 112 + data.message_data_size)]

extract_ed25519_signer_and_message(ix) ==
    LET data == ix.data
        bad == [err |-> "InvalidPopSignatureData", signer_pubkey |-> "",
                message_bytes |-> MessageBytes(NoMessage, 0)]
        overflow == [bad EXCEPT !.err = "MathOverflow"]
        signature_end == data.signature_offset + 64
        public_key_end == data.public_key_offset + 32
        message_end == data.message_data_offset + data.message_data_size
    IN IF data.len < 16 THEN bad
       ELSE IF data.num_signatures # 1 THEN bad
       ELSE IF ~(data.signature_instruction_index = U16_MAX
                 /\ data.public_key_instruction_index = U16_MAX
                 /\ data.message_instruction_index = U16_MAX) THEN bad
       ELSE IF signature_end > USIZE_MAX THEN overflow
       ELSE IF public_key_end > USIZE_MAX THEN overflow
       ELSE IF message_end > USIZE_MAX THEN overflow
       ELSE IF ~(signature_end <= data.len
                 /\ public_key_end <= data.len
                 /\ message_end <= data.len)
       THEN bad
       ELSE [err |-> "Ok",
             signer_pubkey |-> KeyAt(data, data.public_key_offset, public_key_end),
             message_bytes |->
                 MessageAt(data, data.message_data_offset, message_end)]

-----------------------------------------------------------------------------
(* Hash-chain verifier *)

\* a skew bound that excludes the bound itself
SkewBelowBound(skew) == skew < POP_MAX_SKEW_SECONDS

\* lib.rs 696-697: the skew bound
SkewWithinBound(skew) == skew <= POP_MAX_SKEW_SECONDS

\* continuity of the global strand only
ChainCheckGlobalOnly(state, message, grant_key) ==
    IF state.initialized
    THEN IF state.grant # grant_key THEN "PopStateGrantMismatch"
         ELSE IF state.last_global_hash # message.prev_hash
         THEN "PopHashChainBroken"
         ELSE "Ok"
    ELSE IF message.prev_hash # ZERO_HASH THEN "PopGenesisMismatch"
         ELSE IF message.stream_prev_hash # ZERO_HASH THEN "PopGenesisMismatch"
         ELSE "Ok"

\* a genesis rule that looks at the global strand only
ChainCheckGenesisGlobalOnly(state, message, grant_key) ==
    IF state.initialized
    THEN IF state.grant # grant_key THEN "PopStateGrantMismatch"
         ELSE IF state.last_global_hash # message.prev_hash
         THEN "PopHashChainBroken"
         ELSE IF state.last_stream_hash # message.stream_prev_hash
         THEN "PopStreamChainBroken"
         ELSE "Ok"
    ELSE IF message.prev_hash # ZERO_HASH THEN "PopGenesisMismatch"
         ELSE "Ok"

\* a chain resynchronised to whatever message arrives
ChainCheckResync(state, message, grant_key) ==
    IF state.initialized
    THEN IF state.grant # grant_key THEN "PopStateGrantMismatch" ELSE "Ok"
    ELSE IF message.prev_hash # ZERO_HASH THEN "PopGenesisMismatch"
         ELSE IF message.stream_prev_hash # ZERO_HASH THEN "PopGenesisMismatch"
         ELSE "Ok"

\* lib.rs 700-715: continuity against the recorded state, or the genesis rule
ChainCheck(state, message, grant_key) ==
    IF state.initialized
    THEN IF state.grant # grant_key THEN "PopStateGrantMismatch"
         ELSE IF state.last_global_hash # message.prev_hash
         THEN "PopHashChainBroken"
         ELSE IF state.last_stream_hash # message.stream_prev_hash
         THEN "PopStreamChainBroken"
         ELSE "Ok"
    ELSE IF message.prev_hash # ZERO_HASH THEN "PopGenesisMismatch"
         ELSE IF message.stream_prev_hash # ZERO_HASH THEN "PopGenesisMismatch"
         ELSE "Ok"

\* the stream strand left where it was
ChainAdvanceGlobalOnly(state, message, grant_key) ==
    [exists |-> TRUE,
     grant |-> IF state.initialized THEN state.grant ELSE grant_key,
     last_global_hash |-> message.entry_hash,
     last_stream_hash |-> state.last_stream_hash,
     last_period_index |-> message.period_index,
     last_issued_at |-> message.issued_at,
     initialized |-> TRUE]

\* lib.rs 716-724: the state written once the message is accepted
ChainAdvance(state, message, grant_key) ==
    [exists |-> TRUE,
     grant |-> IF state.initialized THEN state.grant ELSE grant_key,
     last_global_hash |-> message.entry_hash,
     last_stream_hash |-> message.entry_hash,
     last_period_index |-> message.period_index,
     last_issued_at |-> message.issued_at,
     initialized |-> TRUE]

\* lib.rs 681-694: the entry hash recomputed from the message's fields
EntryHashCheck(message) ==
    LET expected == pop_entry_hash(message.version, message.prev_hash,
                                   message.stream_prev_hash, message.audit_hash,
                                   message.grant, message.claimer,
                                   message.period_index, message.issued_at)
    IN IF expected.err # "Ok" THEN expected.err
       ELSE IF expected.value # message.entry_hash THEN "PopEntryHashMismatch"
       ELSE "Ok"

\* a binding check that does not look at the audit hash
BindingCheckNoAudit(message, grant_key, claimer, period_index) ==
    IF message.grant # grant_key THEN "PopProofGrantMismatch"
    ELSE IF message.claimer # claimer THEN "PopProofClaimerMismatch"
    ELSE IF message.period_index # period_index THEN "PopProofPeriodMismatch"
    ELSE "Ok"

\* a binding check that does not compare the grant
BindingCheckAnyGrant(message, grant_key, claimer, period_index) ==
    IF message.claimer # claimer THEN "PopProofClaimerMismatch"
    ELSE IF message.period_index # period_index THEN "PopProofPeriodMismatch"
    ELSE IF message.version = POP_MESSAGE_VERSION_V2
            /\ message.audit_hash = ZERO_HASH
    THEN "PopAuditHashMissing"
    ELSE "Ok"

\* lib.rs 663-679: the message bound to the grant, the claimer and the period
BindingCheck(message, grant_key, claimer, period_index) ==
    IF message.grant # grant_key THEN "PopProofGrantMismatch"
    ELSE IF message.claimer # claimer THEN "PopProofClaimerMismatch"
    ELSE IF message.period_index # period_index THEN "PopProofPeriodMismatch"
    ELSE IF message.version = POP_MESSAGE_VERSION_V2
            /\ message.audit_hash = ZERO_HASH
    THEN "PopAuditHashMissing"
    ELSE "Ok"

\* load_instruction_at_checked: instruction number index (from 0) of the
\* transaction, whose instructions are a sequence
InstructionAt(tx, index) == tx.instructions[index + 1]

\* the result of verify_and_record_pop_proof: the error, and the pop_state
\* account as the handler leaves it in memory
PopResult(err, state) == [err |-> err, pop_state |-> state]

\* the checks on the decoded message with the chain checked before the skew
VerifyCheckedChainFirst(accounts, message, bind, hash, skew, chain) ==
    IF bind # "Ok" THEN PopResult(bind, accounts.pop_state)
    ELSE IF hash # "Ok" THEN PopResult(hash, accounts.pop_state)
    ELSE IF chain # "Ok" THEN PopResult(chain, accounts.pop_state)
    ELSE IF skew.err # "Ok" THEN PopResult(skew.err, accounts.pop_state)
    ELSE IF ~SkewWithinBound(skew.value)
    THEN PopResult("PopProofExpired", accounts.pop_state)
    ELSE PopResult("Ok", ChainAdvance(accounts.pop_state, message,
                                      accounts.grant_key))

\* lib.rs 663-726, the checks on the decoded message in the order the code
\* makes them: bind, hash, skew and chain are the outcomes of lines 664-679,
\* 681-694, 696 and 700-715
VerifyChecked(accounts, message, bind, hash, skew, chain) ==
    IF bind # "Ok" THEN PopResult(bind, accounts.pop_state)
    ELSE IF hash # "Ok" THEN PopResult(hash, accounts.pop_state)
    ELSE IF skew.err # "Ok" THEN PopResult(skew.err, accounts.pop_state)
    ELSE IF ~SkewWithinBound(skew.value)
    THEN PopResult("PopProofExpired", accounts.pop_state)
    ELSE IF chain # "Ok" THEN PopResult(chain, accounts.pop_state)
    ELSE PopResult("Ok", ChainAdvance(accounts.pop_state, message,
                                      accounts.grant_key))

VerifyMessage(accounts, period_index, clock, message) ==
    VerifyChecked(accounts, message,
                  BindingCheck(message, accounts.grant_key, accounts.claimer,
                               period_index),
                  EntryHashCheck(message),
                  absolute_i64_diff(clock, message.issued_at),
                  ChainCheck(accounts.pop_state, message, accounts.grant_key))

\* lib.rs 663: the message decoded
VerifyParsed(accounts, period_index, clock, parsed) ==
    IF parsed.err # "Ok" THEN PopResult(parsed.err, accounts.pop_state)
    ELSE VerifyMessage(accounts, period_index, clock, parsed.msg)

\* a verifier that takes a proof from any signer
VerifyExtractedAnySigner(accounts, period_index, clock, ex) ==
    IF ex.err # "Ok" THEN PopResult(ex.err, accounts.pop_state)
    ELSE VerifyParsed(accounts, period_index, clock,
                      parse_pop_message(ex.message_bytes))

\* lib.rs 657-661: the signer and the message extracted
VerifyExtracted(accounts, period_index, clock, ex) ==
    IF ex.err # "Ok" THEN PopResult(ex.err, accounts.pop_state)
    ELSE IF ex.signer_pubkey # accounts.pop_config.signer_pubkey
    THEN PopResult("InvalidPopSigner", accounts.pop_state)
    ELSE VerifyParsed(accounts, period_index, clock,
                      parse_pop_message(ex.message_bytes))

\* lib.rs 650-655: the instruction before the claim
VerifyInstruction(accounts, period_index, clock, ed25519_ix) ==
    IF ed25519_ix.program_id # ED25519_PROGRAM
    THEN PopResult("InvalidPopSignatureProgram", accounts.pop_state)
    ELSE VerifyExtracted(accounts, period_index, clock,
                         extract_ed25519_signer_and_message(ed25519_ix))

\* a verifier that takes the first instruction of the transaction for the
\* signature instruction
verify_and_record_pop_proof_first_ix(accounts, period_index, clock) ==
    IF ~(accounts.instructions_sysvar.current_index > 0)
    THEN PopResult("MissingPopSignatureInstruction", accounts.pop_state)
    ELSE VerifyInstruction(accounts, period_index, clock,
                           InstructionAt(accounts.instructions_sysvar, 0))

\* accounts: the accounts of ClaimGrant as loaded for this instruction
verify_and_record_pop_proof(accounts, period_index, clock) ==
    IF ~(accounts.instructions_sysvar.current_index > 0)
    THEN PopResult("MissingPopSignatureInstruction", accounts.pop_state)
    ELSE VerifyInstruction(
             accounts, period_index, clock,
             InstructionAt(accounts.instructions_sysvar,
                           accounts.instructions_sysvar.current_index - 1))

-----------------------------------------------------------------------------
(* Period and replay guard, and the payout *)

\* a period check that lets every period index through
require_claim_timing_any_period(g, clock, period_index) ==
    IF g.expires_at # 0 /\ ~(clock <= g.expires_at) THEN "GrantExpired"
    ELSE IF ~(clock >= g.start_ts) THEN "GrantNotStarted"
    ELSE IF clock - g.start_ts > I64_MAX THEN "MathOverflow"
    ELSE "Ok"

\* a claim window that is open strictly between start_ts and expires_at
require_claim_timing_exclusive(g, clock, period_index) ==
    IF g.expires_at # 0 /\ ~(clock < g.expires_at) THEN "GrantExpired"
    ELSE IF ~(clock > g.start_ts) THEN "GrantNotStarted"
    ELSE IF clock - g.start_ts > I64_MAX THEN "MathOverflow"
    ELSE IF g.period_seconds > 0
            /\ period_index # (clock - g.start_ts) \div g.period_seconds
    THEN "InvalidPeriodIndex"
    ELSE "Ok"

require_claim_timing(g, clock, period_index) ==
    IF g.expires_at # 0 /\ ~(clock <= g.expires_at) THEN "GrantExpired"
    ELSE IF ~(clock >= g.start_ts) THEN "GrantNotStarted"
    ELSE IF clock - g.start_ts > I64_MAX THEN "MathOverflow"
    ELSE IF g.period_seconds > 0
            /\ period_index # (clock - g.start_ts) \div g.period_seconds
    THEN "InvalidPeriodIndex"
    ELSE "Ok"

\* a vault that must keep something back
transfer_from_vault_strict(vault_amount, amount) ==
    IF ~(vault_amount > amount) THEN [err |-> "InsufficientFunds", moved |-> 0]
    ELSE [err |-> "Ok", moved |-> amount]

\* a transfer that does not look at the vault's balance
transfer_from_vault_unchecked(vault_amount, amount) ==
    [err |-> "Ok", moved |-> amount]

transfer_from_vault(vault_amount, amount) ==
    IF ~(vault_amount >= amount) THEN [err |-> "InsufficientFunds", moved |-> 0]
    ELSE [err |-> "Ok", moved |-> amount]

record_receipt(grant_key, claimer, period_index, claimed_at) ==
    [grant |-> grant_key, claimer |-> claimer, period_index |-> period_index,
     claimed_at |-> claimed_at]

-----------------------------------------------------------------------------
(* Claim admission.  chain is the program's accounts:                      *)
(* [grant, vault, receipts, pop_state, pop_config].                        *)

Chain ==
    [grant |-> grant, vault |-> vault, receipts |-> receipts,
     pop_state |-> pop_state, pop_config |-> pop_config]

\* the receipt PDA of seeds ["receipt", grant, claimer, period_index]
ReceiptExists(rs, grant_key, claimer, period_index) ==
    \E r \in rs : /\ r.grant = grant_key
                  /\ r.claimer = claimer
                  /\ r.period_index = period_index

\* a receipt created with init_if_needed in place of init
ReceiptInitIfNeeded(rs, grant_key, claimer, period_index) == "Ok"

\* lib.rs 372-385: `init` creates the receipt account and fails when an
\* account already lives at its address
ReceiptInit(rs, grant_key, claimer, period_index) ==
    IF ReceiptExists(rs, grant_key, claimer, period_index)
    THEN "AccountAlreadyInUse" ELSE "Ok"

\* the receipt loaded without `init`
ClaimGrantAccountsNoInit(chain, req, receipt) ==
    IF ~chain.grant[req.grant].exists THEN "AccountNotInitialized"
    ELSE IF ~chain.pop_config.exists THEN "AccountNotInitialized"
    ELSE IF chain.pop_config.authority # chain.grant[req.grant].authority
    THEN "InvalidPopConfigAuthority"
    ELSE "Ok"

\* #[derive(Accounts)] ClaimGrant: the accounts are loaded in the order of
\* the struct's fields, before the handler runs; receipt is the outcome of
\* the receipt's `init`
ClaimGrantAccounts(chain, req, receipt) ==
    IF ~chain.grant[req.grant].exists THEN "AccountNotInitialized"
    ELSE IF receipt # "Ok" THEN receipt
    ELSE IF ~chain.pop_config.exists THEN "AccountNotInitialized"
    ELSE IF chain.pop_config.authority # chain.grant[req.grant].authority
    THEN "InvalidPopConfigAuthority"
    ELSE "Ok"

\* the result of a claim handler: the error, the pop_state account as the
\* handler leaves it in memory, and the amount transferred
ClaimResult(err, state, moved) ==
    [err |-> err, pop_state |-> state, moved |-> moved]

\* lib.rs 112-133 and 247-264, the part the two claim handlers share: pop,
\* timing and transfer are the outcomes of verify_and_record_pop_proof,
\* require_claim_timing and transfer_from_vault
ClaimSteps(pop, timing, transfer) ==
    IF pop.err # "Ok" THEN ClaimResult(pop.err, pop.pop_state, 0)
    ELSE IF timing # "Ok" THEN ClaimResult(timing, pop.pop_state, 0)
    ELSE IF transfer.err # "Ok"
    THEN ClaimResult(transfer.err, pop.pop_state, 0)
    ELSE ClaimResult("Ok", pop.pop_state, transfer.moved)

ClaimBody(chain, clock, req) ==
    ClaimSteps(
        verify_and_record_pop_proof(
            [grant_key |-> req.grant, claimer |-> req.claimer,
             pop_state |-> chain.pop_state[req.grant],
             pop_config |-> chain.pop_config,
             instructions_sysvar |-> req.tx],
            req.period_index, clock),
        require_claim_timing(chain.grant[req.grant], clock, req.period_index),
        transfer_from_vault(chain.vault[req.grant],
                            chain.grant[req.grant].amount_per_period))

\* a plain claim that is let through whatever the allowlist setting
ClaimGrantGateNoAllowlist(g) ==
    IF g.paused THEN "Paused" ELSE "Ok"

\* lib.rs 105-110
ClaimGrantGate(g) ==
    IF g.paused THEN "Paused"
    ELSE IF g.merkle_root # 0 THEN "AllowlistRequired"
    ELSE "Ok"

\* lib.rs 232-245
ClaimGrantWithProofGate(g, claimer, proof) ==
    IF g.paused THEN "Paused"
    ELSE IF g.merkle_root = 0 THEN "AllowlistNotEnabled"
    ELSE IF ~verify_merkle_sorted(g.merkle_root, allowlist_leaf(claimer), proof)
    THEN "NotInAllowlist"
    ELSE "Ok"

\* a claim handler behind its accounts and its gate
ClaimHandler(chain, req, accounts, gate, body) ==
    IF accounts # "Ok"
    THEN ClaimResult(accounts, chain.pop_state[req.grant], 0)
    ELSE IF gate # "Ok" THEN ClaimResult(gate, chain.pop_state[req.grant], 0)
    ELSE body

claim_grant(chain, clock, req, accounts, body) ==
    ClaimHandler(chain, req, accounts,
                 ClaimGrantGate(chain.grant[req.grant]), body)

claim_grant_with_proof(chain, clock, req, accounts, body) ==
    ClaimHandler(chain, req, accounts,
                 ClaimGrantWithProofGate(chain.grant[req.grant], req.claimer,
                                         req.proof), body)

\* the instruction dispatched by its name, its accounts loaded first
Dispatch(chain, clock, req, accounts, body) ==
    IF req.ix = "claim_grant"
    THEN claim_grant(chain, clock, req, accounts, body)
    ELSE claim_grant_with_proof(chain, clock, req, accounts, body)

ProcessClaim(chain, clock, req) ==
    Dispatch(chain, clock, req,
             ClaimGrantAccounts(chain, req,
                                ReceiptInit(chain.receipts, req.grant,
                                            req.claimer, req.period_index)),
             ClaimBody(chain, clock, req))

\* a pop_state written through whatever the handler returns
CommitPopStateAlways(before, res, req) ==
    [before EXCEPT ![req.grant] = res.pop_state]

\* The accounts after the transaction: what the handler wrote is stored
\* only when it returned Ok; an Err aborts the transaction.
CommitPopState(before, res, req) ==
    IF res.err = "Ok" THEN [before EXCEPT ![req.grant] = res.pop_state]
    ELSE before

\* a receipt that stays once the accounts have loaded, whatever the handler
\* returns
CommitReceiptsAtInit(before, res, req, clock) ==
    IF res.err \in {"AccountNotInitialized", "AccountAlreadyInUse",
                    "InvalidPopConfigAuthority"}
    THEN before
    ELSE before \cup {record_receipt(req.grant, req.claimer,
                                     req.period_index, clock)}

CommitReceipts(before, res, req, clock) ==
    IF res.err = "Ok"
    THEN before \cup {record_receipt(req.grant, req.claimer,
                                     req.period_index, clock)}
    ELSE before

CommitVault(before, res, req) ==
    IF res.err = "Ok" THEN [before EXCEPT ![req.grant] = @ - res.moved]
    ELSE before

CommitTokens(before, res, req) ==
    IF res.err = "Ok" THEN [before EXCEPT ![req.claimer] = @ + res.moved]
    ELSE before

-----------------------------------------------------------------------------
(* Transactions submitted to the program *)

FAKE_HASH == <<"fake">>
AUDIT_HASH == <<"audit", "a1">>
OTHER_AUDIT_HASH == <<"audit", "a2">>

MessageLen(version) ==
    IF version = POP_MESSAGE_VERSION_V2 THEN POP_MESSAGE_LEN_V2
    ELSE POP_MESSAGE_LEN_V1

\* the message an off-chain signer issues: entry_hash computed over the fields
SignedMessage(version, grant_key, claimer, period_index, prev_hash, stream_prev_hash, audit_hash, issued_at) ==
    [version |-> version, grant |-> grant_key, claimer |-> claimer,
     period_index |-> period_index, prev_hash |-> prev_hash,
     stream_prev_hash |-> stream_prev_hash, audit_hash |-> audit_hash,
     entry_hash |-> pop_entry_hash(version, prev_hash, stream_prev_hash,
                                   audit_hash, grant_key, claimer,
                                   period_index, issued_at).value,
     issued_at |-> issued_at]

\* the ed25519 instruction the SDK builds: header (16 bytes), public key,
\* signature, message
Ed25519Ix(signer, fields, size) ==
    [program_id |-> ED25519_PROGRAM,
     data |-> [len |-> 112 + size, num_signatures |-> 1,
               signature_offset |-> 48,
               signature_instruction_index |-> U16_MAX,
               public_key_offset |-> 16,
               public_key_instruction_index |-> U16_MAX,
               message_data_offset |-> 112,
               message_data_size |-> size,
               message_instruction_index |-> U16_MAX,
               bytes |-> (<<16, 32>> :> signer)
                            @@ (<<112, size>> :> MessageBytes(fields, size))]]

\* the claim instruction itself: its data is not an ed25519 header
ClaimIx == [program_id |-> "grant_program", data |-> [len |-> 0]]

\* a claim whose ed25519 instruction sits right before it
Request(ix, proof, grant_key, claimer, period_index, ed25519_ix) ==
    [ix |-> ix, proof |-> proof, grant |-> grant_key, claimer |-> claimer,
     period_index |-> period_index,
     tx |-> [current_index |-> 1, instructions |-> <<ed25519_ix, ClaimIx>>]]

NoRequest ==
    [ix |-> "", proof |-> <<>>, grant |-> "", claimer |-> "",
     period_index |-> 0,
     tx |-> [current_index |-> 0, instructions |-> <<ClaimIx>>]]

\* the message a request carries, as the handler decodes it
MessageOf(req) ==
    IF req.tx.current_index > 0
    THEN parse_pop_message(
             extract_ed25519_signer_and_message(
                 InstructionAt(req.tx, req.tx.current_index - 1)).message_bytes).msg
    ELSE NoMessage

HonestIx(signer, fields) == Ed25519Ix(signer, fields, MessageLen(fields.version))

AuditOf(version) ==
    IF version = POP_MESSAGE_VERSION_V2 THEN AUDIT_HASH ELSE ZERO_HASH

Versions == {POP_MESSAGE_VERSION_V1, POP_MESSAGE_VERSION_V2}

\* issued_at relative to the clock: on and just past the skew bound
SkewOffsets ==
    {-(POP_MAX_SKEW_SECONDS + 1), -POP_MAX_SKEW_SECONDS,
     POP_MAX_SKEW_SECONDS, POP_MAX_SKEW_SECONDS + 1}

\* what a client reads from the chain before it has a proof issued
CurrentHash(g) == pop_state[g].last_global_hash
StaleHash(g) == accepted[g].prev_hash
TrustedSigner == "s1"
OtherSigner == "s2"
OtherClaimer(c) == IF c = "r1" THEN "r2" ELSE "r1"
OtherPeriod(p) == IF p = 0 THEN 1 ELSE p - 1

\* previous-hash pairs that do not continue the recorded chain
BrokenPairs(g) ==
    {<<ZERO_HASH, ZERO_HASH>>, <<StaleHash(g), StaleHash(g)>>,
     <<FAKE_HASH, FAKE_HASH>>, <<CurrentHash(g), FAKE_HASH>>,
     <<ZERO_HASH, FAKE_HASH>>} \ {<<CurrentHash(g), CurrentHash(g)>>}

\* the period a client computes from the clock for its claim
ClientPeriod(g) ==
    IF grant[g].exists /\ now >= grant[g].start_ts
    THEN (now - grant[g].start_ts) \div grant[g].period_seconds
    ELSE 0

\* a well-formed claim: a proof that continues the recorded chain
Honest(g, c, p, v, off) ==
    Request("claim_grant", <<>>, g, c, p,
            HonestIx(TrustedSigner,
                     SignedMessage(v, g, c, p, CurrentHash(g), CurrentHash(g),
                                   AuditOf(v), now + off)))

\* a correctly hashed proof chained from some other state
Forked(g, c, p, v, pair, off) ==
    Request("claim_grant", <<>>, g, c, p,
            HonestIx(TrustedSigner,
                     SignedMessage(v, g, c, p, pair[1], pair[2], AuditOf(v),
                                   now + off)))

\* one field of a signed message changed, its entry_hash kept
TamperKinds == 1 .. 11

TamperedMessage(m, kind) ==
    CASE kind = 1 -> [m EXCEPT !.prev_hash = FAKE_HASH]
      [] kind = 2 -> [m EXCEPT !.stream_prev_hash = FAKE_HASH]
      [] kind = 3 -> [m EXCEPT !.audit_hash = OTHER_AUDIT_HASH]
      [] kind = 4 -> [m EXCEPT !.audit_hash = ZERO_HASH]
      [] kind = 5 -> [m EXCEPT !.grant = GrantPda(2)]
      [] kind = 6 -> [m EXCEPT !.claimer = OtherClaimer(m.claimer)]
      [] kind = 7 -> [m EXCEPT !.period_index = OtherPeriod(m.period_index)]
      [] kind = 8 -> [m EXCEPT !.issued_at = m.issued_at + 1]
      [] kind = 9 -> [m EXCEPT !.version = POP_MESSAGE_VERSION_V1]
      [] kind = 10 ->
           \* the version-1 entry hash of the same fields, in a version-2 message
           [m EXCEPT !.entry_hash =
               pop_entry_hash(POP_MESSAGE_VERSION_V1, m.prev_hash,
                              m.stream_prev_hash, ZERO_HASH, m.grant, m.claimer,
                              m.period_index, m.issued_at).value]
      [] OTHER ->
           \* a version-2 message signed over an all-zero audit hash
           SignedMessage(POP_MESSAGE_VERSION_V2, m.grant, m.claimer,
                         m.period_index, m.prev_hash, m.stream_prev_hash,
                         ZERO_HASH, m.issued_at)

\* the claim is made by the claimer and for the period the tampered message
\* names (rebound), or as the original message's claim
Tampered(g, c, p, kind, rebound) ==
    LET m == SignedMessage(POP_MESSAGE_VERSION_V2, g, c, p, CurrentHash(g),
                           CurrentHash(g), AUDIT_HASH,
                           now - POP_MAX_SKEW_SECONDS)
        t == TamperedMessage(m, kind)
    IN IF rebound
       THEN Request("claim_grant", <<>>, g, t.claimer, t.period_index,
                    HonestIx(TrustedSigner, t))
       ELSE Request("claim_grant", <<>>, g, c, p, HonestIx(TrustedSigner, t))

\* a malformed transaction around a well-formed message
MalformKinds == 1 .. 15

Malformed(g, c, p, kind) ==
    LET m == SignedMessage(POP_MESSAGE_VERSION_V1, g, c, p, CurrentHash(g),
                           CurrentHash(g), ZERO_HASH,
                           now - POP_MAX_SKEW_SECONDS)
        ix == HonestIx(TrustedSigner, m)
        good == Request("claim_grant", <<>>, g, c, p, ix)
        withIx(i) == Request("claim_grant", <<>>, g, c, p, i)
    IN CASE kind = 1 ->
              [good EXCEPT !.tx = [current_index |-> 0,
                                   instructions |-> <<ClaimIx, ix>>]]
         [] kind = 2 ->
              [good EXCEPT !.tx = [current_index |-> 2,
                                   instructions |-> <<ix, ClaimIx, ClaimIx>>]]
         [] kind = 3 -> withIx([ix EXCEPT !.program_id = OTHER_PROGRAM])
         [] kind = 4 -> withIx([ix EXCEPT !.data.num_signatures = 2])
         [] kind = 5 -> withIx([ix EXCEPT !.data.message_instruction_index = 0])
         [] kind = 6 ->
              withIx([ix EXCEPT !.data.len = 112 + MessageLen(m.version) - 1])
         [] kind = 7 -> withIx(HonestIx(OtherSigner, m))
         [] kind = 8 ->
              withIx(Ed25519Ix(TrustedSigner, [m EXCEPT !.version = 3],
                               MessageLen(m.version)))
         [] kind = 9 ->
              withIx(Ed25519Ix(TrustedSigner, m, MessageLen(m.version) + 32))
         [] kind = 10 -> withIx(Ed25519Ix(TrustedSigner, m, 0))
         [] kind = 11 ->
              \* another program's instruction first, then the ed25519
              \* instruction right before the claim
              [good EXCEPT !.tx = [current_index |-> 2,
                                   instructions |->
                                       <<[ix EXCEPT !.program_id = OTHER_PROGRAM],
                                         ix, ClaimIx>>]]
         [] kind = 12 ->
              \* a proof issued at the least timestamp there is
              withIx(HonestIx(TrustedSigner,
                              SignedMessage(POP_MESSAGE_VERSION_V1, g, c, p,
                                            CurrentHash(g), CurrentHash(g),
                                            ZERO_HASH, I64_MIN)))
         [] kind = 13 -> [good EXCEPT !.period_index = OtherPeriod(p)]
         [] kind = 14 -> [good EXCEPT !.claimer = OtherClaimer(c)]
         [] OTHER ->
              \* a proof issued for another grant
              withIx(HonestIx(TrustedSigner,
                              SignedMessage(POP_MESSAGE_VERSION_V1,
                                            CHOOSE k \in GrantKeys : k # g,
                                            c, p, CurrentHash(g),
                                            CurrentHash(g), ZERO_HASH,
                                            now - POP_MAX_SKEW_SECONDS)))

\* the sibling of r1's leaf in the allowlist tree, and the tree's root
SiblingLeaf == allowlist_leaf("r3")
AllowlistRoot == merkle_fold(allowlist_leaf("r1"), <<SiblingLeaf>>)
Proofs == <<(<<>>), <<SiblingLeaf>>, <<allowlist_leaf("r1")>>>>

WithProof(g, c, p, v, proof) ==
    [Honest(g, c, p, v, -POP_MAX_SKEW_SECONDS) EXCEPT
        !.ix = "claim_grant_with_proof", !.proof = proof]

\* version 1 proofs issued in the past, version 2 proofs in the future
VersionSkews ==
    {<<POP_MESSAGE_VERSION_V1, -POP_MAX_SKEW_SECONDS>>,
     <<POP_MESSAGE_VERSION_V1, -(POP_MAX_SKEW_SECONDS + 1)>>,
     <<POP_MESSAGE_VERSION_V2, POP_MAX_SKEW_SECONDS>>,
     <<POP_MESSAGE_VERSION_V2, POP_MAX_SKEW_SECONDS + 1>>}

ForkSkews(pair) ==
    IF pair = <<FAKE_HASH, FAKE_HASH>>
    THEN {-POP_MAX_SKEW_SECONDS, -(POP_MAX_SKEW_SECONDS + 1)}
    ELSE {-POP_MAX_SKEW_SECONDS}

-----------------------------------------------------------------------------
(* The state machine *)

Idle == [op |-> "idle", err |-> "Ok", req |-> NoRequest]

Outcome(op, err, req) == [op |-> op, err |-> err, req |-> req]

AdminRequest(grant_key) == [NoRequest EXCEPT !.grant = grant_key]

Init ==
    /\ now = StartTs - 1
    /\ grant = [g \in GrantKeys |-> NoGrant]
    /\ vault = [g \in GrantKeys |-> 0]
    /\ tokens = [k \in {AUTHORITY} \cup Claimers |->
                    IF k = AUTHORITY THEN InitFunds ELSE 0]
    /\ receipts = {}
    /\ pop_state = [g \in GrantKeys |-> NoPopState]
    /\ pop_config = NoPopConfig
    /\ last = Idle
    /\ accepted = [g \in GrantKeys |-> NoMessage]
    /\ paid = [k \in GrantKeys \X Claimers |-> 0]

\* the submitter reads the outcome of the transaction
Observe ==
    /\ last.op # "idle"
    /\ last' = Idle
    /\ UNCHANGED <<now, grant, vault, tokens, receipts, pop_state, pop_config,
                   accepted, paid>>

\* the cluster clock advances
Tick ==
    /\ last.op = "idle"
    /\ \E t \in Times : t > now /\ now' = t
    /\ UNCHANGED <<grant, vault, tokens, receipts, pop_state, pop_config, last,
                   accepted, paid>>

create_grant_result(grant_id, amount_per_period, period_seconds, start_ts) ==
    IF ~(amount_per_period > 0) THEN "InvalidAmount"
    ELSE IF ~(period_seconds > 0) THEN "InvalidPeriod"
    ELSE IF ~(start_ts <= now + YEAR_SECONDS) THEN "InvalidStartTs"
    ELSE "Ok"

create_grant(grant_id, amount_per_period, period_seconds, start_ts, expires_at) ==
    LET key == GrantPda(grant_id)
        err == create_grant_result(grant_id, amount_per_period, period_seconds,
                                   start_ts)
    IN /\ last.op = "idle"
       /\ last' = Outcome("create_grant", err, AdminRequest(key))
       /\ grant' = IF err = "Ok"
                   THEN [grant EXCEPT ![key] =
                           [exists |-> TRUE, authority |-> AUTHORITY,
                            mint |-> MINT, grant_id |-> grant_id,
                            amount_per_period |-> amount_per_period,
                            period_seconds |-> period_seconds,
                            start_ts |-> start_ts, expires_at |-> expires_at,
                            merkle_root |-> 0, paused |-> FALSE]]
                   ELSE grant
       /\ UNCHANGED <<now, vault, tokens, receipts, pop_state, pop_config,
                      accepted, paid>>

fund_grant_result(key, amount) ==
    IF ~grant[key].exists THEN "AccountNotInitialized"
    ELSE IF ~(amount > 0) THEN "InvalidAmount"
    ELSE IF tokens[AUTHORITY] < amount THEN "TokenInsufficientFunds"
    ELSE "Ok"

fund_grant(key, amount) ==
    LET err == fund_grant_result(key, amount)
    IN /\ last.op = "idle"
       /\ last' = Outcome("fund_grant", err, AdminRequest(key))
       /\ vault' = IF err = "Ok" THEN [vault EXCEPT ![key] = @ + amount]
                   ELSE vault
       /\ tokens' = IF err = "Ok" THEN [tokens EXCEPT ![AUTHORITY] = @ - amount]
                    ELSE tokens
       /\ UNCHANGED <<now, grant, receipts, pop_state, pop_config, accepted,
                      paid>>

\* a close_grant that closes the proof-of-process state with the grant
close_grant_with_pop_state(key) ==
    LET err == IF grant[key].exists THEN "Ok" ELSE "AccountNotInitialized"
    IN /\ last.op = "idle"
       /\ last' = Outcome("close_grant", err, AdminRequest(key))
       /\ tokens' = IF err = "Ok"
                    THEN [tokens EXCEPT ![AUTHORITY] = @ + vault[key]]
                    ELSE tokens
       /\ vault' = IF err = "Ok" THEN [vault EXCEPT ![key] = 0] ELSE vault
       /\ grant' = IF err = "Ok" THEN [grant EXCEPT ![key] = NoGrant]
                   ELSE grant
       /\ pop_state' = IF err = "Ok" THEN [pop_state EXCEPT ![key] = NoPopState]
                       ELSE pop_state
       /\ UNCHANGED <<now, receipts, pop_config, accepted, paid>>

close_grant(key) ==
    LET err == IF grant[key].exists THEN "Ok" ELSE "AccountNotInitialized"
    IN /\ last.op = "idle"
       /\ last' = Outcome("close_grant", err, AdminRequest(key))
       /\ tokens' = IF err = "Ok"
                    THEN [tokens EXCEPT ![AUTHORITY] = @ + vault[key]]
                    ELSE tokens
       /\ vault' = IF err = "Ok" THEN [vault EXCEPT ![key] = 0] ELSE vault
       /\ grant' = IF err = "Ok" THEN [grant EXCEPT ![key] = NoGrant]
                   ELSE grant
       /\ UNCHANGED <<now, receipts, pop_state, pop_config, accepted, paid>>

set_paused(key, paused) ==
    LET err == IF grant[key].exists THEN "Ok" ELSE "AccountNotInitialized"
    IN /\ last.op = "idle"
       /\ last' = Outcome("set_paused", err, AdminRequest(key))
       /\ grant' = IF err = "Ok" THEN [grant EXCEPT ![key].paused = paused]
                   ELSE grant
       /\ UNCHANGED <<now, vault, tokens, receipts, pop_state, pop_config,
                      accepted, paid>>

set_allowlist_root(key, merkle_root) ==
    LET err == IF grant[key].exists THEN "Ok" ELSE "AccountNotInitialized"
    IN /\ last.op = "idle"
       /\ last' = Outcome("set_allowlist_root", err, AdminRequest(key))
       /\ grant' = IF err = "Ok"
                   THEN [grant EXCEPT ![key].merkle_root = merkle_root]
                   ELSE grant
       /\ UNCHANGED <<now, vault, tokens, receipts, pop_state, pop_config,
                      accepted, paid>>

upsert_pop_config(signer_pubkey) ==
    /\ last.op = "idle"
    /\ last' = Outcome("upsert_pop_config", "Ok", NoRequest)
    /\ pop_config' = [exists |-> TRUE, authority |-> AUTHORITY,
                      signer_pubkey |-> signer_pubkey]
    /\ UNCHANGED <<now, grant, vault, tokens, receipts, pop_state, accepted,
                   paid>>

\* a claim_grant or claim_grant_with_proof transaction
Claim(req) ==
    /\ last.op = "idle"
    /\ \E res \in {ProcessClaim(Chain, now, req)} :
        /\ last' = Outcome(req.ix, res.err, req)
        /\ pop_state' = CommitPopState(pop_state, res, req)
        /\ receipts' = CommitReceipts(receipts, res, req, now)
        /\ vault' = CommitVault(vault, res, req)
        /\ tokens' = CommitTokens(tokens, res, req)
        /\ accepted' = IF res.err = "Ok"
                       THEN [accepted EXCEPT ![req.grant] = MessageOf(req)]
                       ELSE accepted
        /\ paid' = IF res.moved > 0
                   THEN [paid EXCEPT ![<<req.grant, req.claimer>>] = @ + 1]
                   ELSE paid
    /\ UNCHANGED <<now, grant, pop_config>>

\* the submitter has read the outcome of the transaction before
Ready == last.op = "idle"

Admin(ids, signers) ==
    \/ /\ Ready
       /\ \E id \in ids, a \in {0, Amount}, ps \in {0, DEFAULT_MONTH_SECONDS},
             st \in {StartTs, StartTs + 2 * YEAR_SECONDS, I64_MIN},
             ex \in {0, StartTs} :
               create_grant(id, a, ps, st, ex)
    \/ /\ Ready
       /\ \E id \in ids, a \in {0, Amount} : fund_grant(GrantPda(id), a)
    \/ /\ Ready
       /\ \E id \in ids : close_grant(GrantPda(id))
    \/ /\ Ready
       /\ \E id \in ids, b \in BOOLEAN : set_paused(GrantPda(id), b)
    \/ /\ Ready
       /\ \E id \in ids, r \in {0, AllowlistRoot} :
               set_allowlist_root(GrantPda(id), r)
    \/ /\ Ready
       /\ \E k \in signers : upsert_pop_config(k)

\* the claims submitted for grant g
Claims(g) ==
    \/ /\ Ready
       /\ \E c \in Claimers, p \in Periods, vs \in VersionSkews :
            \E req \in {Honest(g, c, p, vs[1], vs[2])} : Claim(req)
    \/ /\ Ready
       /\ \E c \in Claimers, pair \in BrokenPairs(g) :
            \E off \in ForkSkews(pair) :
              \E req \in {Forked(g, c, ClientPeriod(g), POP_MESSAGE_VERSION_V1,
                                 pair, off)} : Claim(req)
    \/ /\ Ready
       /\ \E c \in Claimers, kind \in TamperKinds, rebound \in BOOLEAN :
            \E req \in {Tampered(g, c, ClientPeriod(g), kind, rebound)} :
              Claim(req)
    \/ /\ Ready
       /\ \E c \in Claimers, kind \in MalformKinds :
            \E req \in {Malformed(g, c, ClientPeriod(g), kind)} : Claim(req)
    \/ /\ Ready
       /\ \E c \in Claimers, i \in DOMAIN Proofs :
            \E req \in {WithProof(g, c, ClientPeriod(g), POP_MESSAGE_VERSION_V1,
                                  Proofs[i])} : Claim(req)

Next ==
    \/ Observe
    \/ Tick
    \/ Admin({1}, Signers)
    \/ Claims(GrantPda(1))

Spec == Init /\ [][Next]_vars

-----------------------------------------------------------------------------
(* Properties *)

ClaimOps == {"claim_grant", "claim_grant_with_proof"}

\* the step is a claim transaction; last' holds its request and outcome
ClaimStep == last.op = "idle" /\ last'.op \in ClaimOps

\* the receipts of one (grant, recipient) pair, and of one recipient
ReceiptsOf(g, c) == {r \in receipts : r.grant = g /\ r.claimer = c}
ReceiptsHeldBy(c) == {r \in receipts : r.claimer = c}

\* the chain state, the receipts and the token balances
Ledger == <<pop_state, receipts, vault, tokens>>

\* C1: at most one receipt exists for each (grant, recipient, period_index)
\* triple, and the number of payouts made to a recipient for a grant equals
\* the number of receipts the recipient holds for it; the recipient's balance
\* is that many times amount_per_period.
C1_OneReceiptOnePayout ==
    /\ \A r1, r2 \in receipts :
          (r1.grant = r2.grant /\ r1.claimer = r2.claimer
              /\ r1.period_index = r2.period_index) => r1 = r2
    /\ \A g \in GrantKeys, c \in Claimers :
          paid[<<g, c>>] = Cardinality(ReceiptsOf(g, c))
    /\ \A c \in Claimers : tokens[c] = Amount * Cardinality(ReceiptsHeldBy(c))

\* a recipient holding receipts of two periods has just replayed a claim
C1_Witness ==
    /\ last.op \in ClaimOps
    /\ last.err = "AccountAlreadyInUse"
    /\ Cardinality(ReceiptsOf(last.req.grant, last.req.claimer)) = 2
    /\ paid[<<last.req.grant, last.req.claimer>>] = 2

\* C3: where a grant's chain state is initialized, both hashes are the
\* entry_hash of the proof message accepted last for the grant, and
\* last_period_index and last_issued_at are that message's.
C3_ChainStateIsLastAccepted ==
    \A g \in GrantKeys :
        pop_state[g].initialized =>
            /\ accepted[g] # NoMessage
            /\ pop_state[g].last_global_hash = accepted[g].entry_hash
            /\ pop_state[g].last_stream_hash = accepted[g].entry_hash
            /\ pop_state[g].last_period_index = accepted[g].period_index
            /\ pop_state[g].last_issued_at = accepted[g].issued_at

\* the chain has been extended past its genesis message
C3_Witness ==
    \E g \in GrantKeys :
        /\ pop_state[g].initialized
        /\ accepted[g].prev_hash # ZERO_HASH
        /\ accepted[g].period_index = 1
        /\ pop_state[g].last_global_hash = accepted[g].entry_hash

Discontinuous(state, message) ==
    \/ message.prev_hash # state.last_global_hash
    \/ message.stream_prev_hash # state.last_stream_hash

ChainBrokenErrors == {"PopHashChainBroken", "PopStreamChainBroken"}

\* C4: on an initialized chain a claim whose message does not continue the
\* recorded global or stream hash is rejected, and the recorded chain state
\* is the same after the rejection as before it.
C4_DiscontinuousRejected ==
    [][(/\ ClaimStep
        /\ pop_state[last'.req.grant].initialized
        /\ Discontinuous(pop_state[last'.req.grant], MessageOf(last'.req)))
        => /\ last'.err # "Ok"
           /\ pop_state'[last'.req.grant] = pop_state[last'.req.grant]]_vars

\* a message continuing the global strand but not the stream strand was
\* turned away by the continuity check
C4_Witness ==
    /\ last.op \in ClaimOps
    /\ last.err = "PopStreamChainBroken"
    /\ pop_state[last.req.grant].initialized
    /\ MessageOf(last.req).prev_hash = pop_state[last.req.grant].last_global_hash
    /\ MessageOf(last.req).stream_prev_hash
          # pop_state[last.req.grant].last_stream_hash

\* C5: on an uninitialized chain a claim is accepted only if both previous
\* hashes of its message are all-zero; otherwise it is rejected and the chain
\* stays uninitialized; the first accepted claim leaves the chain initialized,
\* bound to the grant, with both hashes the message's entry_hash.
C5_GenesisRule ==
    [][(ClaimStep /\ ~pop_state[last'.req.grant].initialized)
        => /\ (MessageOf(last'.req).prev_hash # ZERO_HASH
                 \/ MessageOf(last'.req).stream_prev_hash # ZERO_HASH)
                 => /\ last'.err # "Ok"
                    /\ ~pop_state'[last'.req.grant].initialized
           /\ last'.err = "Ok"
                 => /\ pop_state'[last'.req.grant].initialized
                    /\ pop_state'[last'.req.grant].grant = last'.req.grant
                    /\ pop_state'[last'.req.grant].last_global_hash
                          = MessageOf(last'.req).entry_hash
                    /\ pop_state'[last'.req.grant].last_stream_hash
                          = MessageOf(last'.req).entry_hash]_vars

\* a first message with a zero global and a non-zero stream previous hash
\* was turned away
C5_Witness ==
    /\ last.op \in ClaimOps
    /\ last.err = "PopGenesisMismatch"
    /\ ~pop_state[last.req.grant].initialized
    /\ MessageOf(last.req).prev_hash = ZERO_HASH
    /\ MessageOf(last.req).stream_prev_hash # ZERO_HASH

\* the claims that race the one being admitted: proofs issued against the
\* same recorded chain state, for another recipient or another period
Racers(g, winner) ==
    {b \in {Honest(g, c, p, vs[1], vs[2]) :
                c \in Claimers, p \in Periods, vs \in VersionSkews} :
        /\ <<b.claimer, b.period_index>> # <<winner.claimer, winner.period_index>>
        /\ ProcessClaim(Chain, now, b).err = "Ok"}

\* the outcome of request b processed after the step
Afterwards(b) == ProcessClaim(Chain', now', b)

\* C6: of two claims for the same grant, for different recipients or
\* periods, both carrying proofs chained from the same recorded state and
\* both admissible against it, the one processed second sees the state the
\* first committed: it fails with a chain-broken error, creates no receipt,
\* moves no funds and leaves the chain state as the first left it.
C6_RaceLoserFailsChainBroken ==
    [][(ClaimStep /\ last'.err = "Ok")
        => \A b \in Racers(last'.req.grant, last'.req) :
              /\ Afterwards(b).err \in ChainBrokenErrors
              /\ Afterwards(b).moved = 0
              /\ CommitPopState(pop_state', Afterwards(b), b) = pop_state'
              /\ CommitReceipts(receipts', Afterwards(b), b, now') = receipts'
              /\ CommitVault(vault', Afterwards(b), b) = vault'
              /\ CommitTokens(tokens', Afterwards(b), b) = tokens']_vars

\* the loser of such a race: its proof is chained from the state the
\* winner's proof was chained from
C6_Witness ==
    /\ last.op \in ClaimOps
    /\ last.err = "PopHashChainBroken"
    /\ accepted[last.req.grant] # NoMessage
    /\ MessageOf(last.req).prev_hash = accepted[last.req.grant].prev_hash
    /\ MessageOf(last.req).stream_prev_hash
          = accepted[last.req.grant].stream_prev_hash
    /\ MessageOf(last.req).period_index = accepted[last.req.grant].period_index
    /\ last.req.claimer # accepted[last.req.grant].claimer
    /\ ~ReceiptExists(receipts, last.req.grant, last.req.claimer,
                      last.req.period_index)
    /\ tokens[last.req.claimer] = 0

\* C7: every rejected claim leaves the chain state, the receipts and every
\* token balance unchanged, whatever check rejects it.
C7_RejectionChangesNothing ==
    [][(ClaimStep /\ last'.err # "Ok") => UNCHANGED Ledger]_vars

\* a claim whose proof passed was rejected for want of funds
C7_Witness ==
    /\ last.op \in ClaimOps
    /\ last.err = "InsufficientFunds"
    /\ vault[last.req.grant] < grant[last.req.grant].amount_per_period
    /\ pop_state[last.req.grant].last_global_hash
          # MessageOf(last.req).entry_hash

\* The admission checks, each stated over the accounts before the step and
\* the request

\* the accounts of the claim load: the grant and the signer configuration of
\* its authority exist
AccountsLoad(req) ==
    /\ grant[req.grant].exists
    /\ pop_config.exists
    /\ pop_config.authority = grant[req.grant].authority

NoReceiptYet(req) ==
    ~ReceiptExists(receipts, req.grant, req.claimer, req.period_index)

\* the grant is not paused and the instruction is the one its allowlist
\* setting calls for, with a proof of membership where one is needed
GateOpen(req) ==
    /\ ~grant[req.grant].paused
    /\ req.ix = "claim_grant" => grant[req.grant].merkle_root = 0
    /\ req.ix = "claim_grant_with_proof"
          => /\ grant[req.grant].merkle_root # 0
             /\ verify_merkle_sorted(grant[req.grant].merkle_root,
                                     allowlist_leaf(req.claimer), req.proof)

\* the instruction before the claim is a well-formed ed25519 instruction of
\* the configured signer over a message that decodes
CompanionOk(req) ==
    /\ req.tx.current_index > 0
    /\ InstructionAt(req.tx, req.tx.current_index - 1).program_id
          = ED25519_PROGRAM
    /\ extract_ed25519_signer_and_message(
           InstructionAt(req.tx, req.tx.current_index - 1)).err = "Ok"
    /\ extract_ed25519_signer_and_message(
           InstructionAt(req.tx, req.tx.current_index - 1)).signer_pubkey
          = pop_config.signer_pubkey
    /\ parse_pop_message(
           extract_ed25519_signer_and_message(
               InstructionAt(req.tx, req.tx.current_index - 1)).message_bytes).err
          = "Ok"

\* the message names the request's grant, recipient and period, and a
\* version-2 message carries an audit hash
Bound(req, m) ==
    /\ m.grant = req.grant
    /\ m.claimer = req.claimer
    /\ m.period_index = req.period_index
    /\ m.version = 2 => m.audit_hash # ZERO_HASH

\* the entry hash of a message: the version's domain tag, the previous
\* hashes, the audit hash (version 2 only), grant, recipient, period_index
\* and issued_at
ExpectedEntryHash(m) ==
    IF m.version = 1
    THEN <<"we-ne:pop:v1", m.prev_hash, m.stream_prev_hash, m.grant, m.claimer,
           m.period_index, m.issued_at>>
    ELSE <<"we-ne:pop:v2", m.prev_hash, m.stream_prev_hash, m.audit_hash,
           m.grant, m.claimer, m.period_index, m.issued_at>>

HashCorrect(m) == m.version \in {1, 2} /\ m.entry_hash = ExpectedEntryHash(m)

\* the previous hashes match the recorded state, or are all-zero on an
\* uninitialized chain
Continuous(state, m) ==
    IF state.initialized THEN ~Discontinuous(state, m)
    ELSE m.prev_hash = ZERO_HASH /\ m.stream_prev_hash = ZERO_HASH

SkewOf(m) == IF now >= m.issued_at THEN now - m.issued_at ELSE m.issued_at - now

\* the grant has started, has not expired, the time since its start is a
\* representable number, and the request names the current period
TimingOk(req) ==
    /\ grant[req.grant].expires_at = 0 \/ now <= grant[req.grant].expires_at
    /\ now >= grant[req.grant].start_ts
    /\ now - grant[req.grant].start_ts <= I64_MAX
    /\ grant[req.grant].period_seconds > 0
    /\ req.period_index
          = (now - grant[req.grant].start_ts) \div grant[req.grant].period_seconds

Funded(req) == vault[req.grant] >= grant[req.grant].amount_per_period

\* the message of the request is a valid proof against the recorded state
ValidProof(req) ==
    /\ HashCorrect(MessageOf(req))
    /\ Continuous(pop_state[req.grant], MessageOf(req))
    /\ SkewOf(MessageOf(req)) <= 600

\* every admission check other than those on the proof's hash, chain and skew
OtherChecksPass(req) ==
    /\ AccountsLoad(req)
    /\ GateOpen(req)
    /\ CompanionOk(req)
    /\ Bound(req, MessageOf(req))
    /\ TimingOk(req)
    /\ Funded(req)

\* C8 (as the program behaves): for a version-1 or version-2 message with a
\* correctly recomputed entry_hash, previous hashes matching the recorded
\* state (all-zero on an uninitialized chain) and issued_at within 600
\* seconds of now, the first request for its triple is admitted and creates
\* the receipt provided every other admission check passes (accounts, pause
\* and allowlist gate, companion instruction and signer, binding, timing,
\* funds); no later request for the triple is admitted.
C8_ValidProofAdmittedOnceWhenOtherChecksPass ==
    [][ClaimStep
        => /\ (ValidProof(last'.req) /\ OtherChecksPass(last'.req)
                  /\ NoReceiptYet(last'.req))
                 => /\ last'.err = "Ok"
                    /\ ReceiptExists(receipts', last'.req.grant,
                                     last'.req.claimer, last'.req.period_index)
           /\ ~NoReceiptYet(last'.req) => last'.err # "Ok"]_vars

\* C8 (as stated): for such a message, carried by a well-formed request
\* bound to its grant, recipient and period, the first request for its
\* triple is admitted and creates the receipt, and no later request for the
\* triple is admitted.
C8_ValidProofAdmittedOnce ==
    [][ClaimStep
        => /\ (ValidProof(last'.req) /\ AccountsLoad(last'.req)
                  /\ CompanionOk(last'.req)
                  /\ Bound(last'.req, MessageOf(last'.req))
                  /\ NoReceiptYet(last'.req))
                 => /\ last'.err = "Ok"
                    /\ ReceiptExists(receipts', last'.req.grant,
                                     last'.req.claimer, last'.req.period_index)
           /\ ~NoReceiptYet(last'.req) => last'.err # "Ok"]_vars

\* a version-2 claim admitted and paid with the vault's last tokens
C8_Witness ==
    /\ last.op \in ClaimOps
    /\ last.err = "Ok"
    /\ MessageOf(last.req).version = 2
    /\ SkewOf(MessageOf(last.req)) = 600
    /\ vault[last.req.grant] = 0
    /\ ReceiptExists(receipts, last.req.grant, last.req.claimer,
                     last.req.period_index)

\* C9 (as the program behaves): a claim is admitted only if the message's
\* entry_hash equals the hash recomputed from its fields; a message whose
\* entry_hash does not is never admitted, and is refused with the
\* hash-mismatch error when the checks made before the recomputation pass
\* (accounts, gate, companion instruction and signer, binding of grant,
\* recipient and period, audit hash present).
C9_EntryHashRecomputed ==
    [][ClaimStep
        => /\ last'.err = "Ok" => HashCorrect(MessageOf(last'.req))
           /\ (~HashCorrect(MessageOf(last'.req)) /\ AccountsLoad(last'.req)
                  /\ NoReceiptYet(last'.req) /\ GateOpen(last'.req)
                  /\ CompanionOk(last'.req)
                  /\ Bound(last'.req, MessageOf(last'.req)))
                 => last'.err = "PopEntryHashMismatch"]_vars

\* C9 (as stated): a claim is admitted only if the message's entry_hash
\* equals the recomputed hash, and verification of a message whose entry_hash
\* does not fails with the hash-mismatch error.
C9_TamperedFailsHashMismatch ==
    [][ClaimStep
        => /\ last'.err = "Ok" => HashCorrect(MessageOf(last'.req))
           /\ (~HashCorrect(MessageOf(last'.req)) /\ AccountsLoad(last'.req)
                  /\ NoReceiptYet(last'.req) /\ GateOpen(last'.req)
                  /\ CompanionOk(last'.req))
                 => last'.err = "PopEntryHashMismatch"]_vars

\* a message whose issued_at was changed after signing was refused
C9_Witness ==
    /\ last.op \in ClaimOps
    /\ last.err = "PopEntryHashMismatch"
    /\ MessageOf(last.req).version = 2
    /\ MessageOf(last.req).entry_hash
          = ExpectedEntryHash([MessageOf(last.req) EXCEPT !.issued_at = @ - 1])

\* C10: a claim is admitted only if |now - issued_at| <= 600; with every
\* other check passing it is admitted at a skew of 600 or less, and refused
\* with the proof-expired error at 601 or more (as long as the difference
\* is a representable number).
C10_SkewBoundary ==
    [][ClaimStep
        => /\ last'.err = "Ok" => SkewOf(MessageOf(last'.req)) <= 600
           /\ (OtherChecksPass(last'.req) /\ NoReceiptYet(last'.req)
                  /\ HashCorrect(MessageOf(last'.req))
                  /\ Continuous(pop_state[last'.req.grant], MessageOf(last'.req)))
                 => /\ SkewOf(MessageOf(last'.req)) <= 600
                          => last'.err = "Ok"
                    /\ (/\ SkewOf(MessageOf(last'.req)) > 600
                        /\ SkewOf(MessageOf(last'.req)) <= I64_MAX)
                          => last'.err = "PopProofExpired"]_vars

\* a proof issued 601 seconds ago was refused after one issued 600 seconds
\* before its claim had been admitted
C10_Witness ==
    /\ last.op \in ClaimOps
    /\ last.err = "PopProofExpired"
    /\ now - MessageOf(last.req).issued_at = 601
    /\ \E r \in receipts :
          /\ r.grant = last.req.grant
          /\ r.claimer = accepted[r.grant].claimer
          /\ r.period_index = accepted[r.grant].period_index
          /\ r.claimed_at - accepted[r.grant].issued_at = 600

-----------------------------------------------------------------------------
(* Period index and claim window *)

\* every check made before the grant's timing passes: the accounts load, no
\* receipt exists for the triple, the gate is open, the companion
\* instruction is well-formed and from the configured signer, and the
\* message is bound to the request and a valid proof
PreTiming(req) ==
    /\ AccountsLoad(req)
    /\ NoReceiptYet(req)
    /\ GateOpen(req)
    /\ CompanionOk(req)
    /\ Bound(req, MessageOf(req))
    /\ ValidProof(req)

Expired(g) == grant[g].expires_at # 0 /\ now > grant[g].expires_at

NotStarted(g) == now < grant[g].start_ts

\* floor((now - start_ts) / period_seconds)
CurrentPeriodIndex(g) == (now - grant[g].start_ts) \div grant[g].period_seconds

\* every check made before the message's period_index is compared with the
\* request's passes
PrePeriodBinding(req) ==
    /\ AccountsLoad(req)
    /\ NoReceiptYet(req)
    /\ GateOpen(req)
    /\ CompanionOk(req)
    /\ MessageOf(req).grant = req.grant
    /\ MessageOf(req).claimer = req.claimer

\* C11 (as the program behaves): a claim is admitted only if its
\* period_index is floor((now - start_ts) / period_seconds). Of the claims
\* naming another index, one whose proof message names a different index
\* than the request is refused with PopProofPeriodMismatch, and one whose
\* message names the request's index and which passes every earlier check
\* on a started, unexpired grant is refused with InvalidPeriodIndex.
C11_PeriodIndexIsCurrent ==
    [][ClaimStep
        => /\ last'.err = "Ok"
                 => last'.req.period_index = CurrentPeriodIndex(last'.req.grant)
           /\ (/\ PrePeriodBinding(last'.req)
               /\ MessageOf(last'.req).period_index # last'.req.period_index)
                 => last'.err = "PopProofPeriodMismatch"
           /\ (/\ PreTiming(last'.req)
               /\ ~Expired(last'.req.grant)
               /\ ~NotStarted(last'.req.grant)
               /\ now - grant[last'.req.grant].start_ts <= I64_MAX
               /\ last'.req.period_index # CurrentPeriodIndex(last'.req.grant))
                 => last'.err = "InvalidPeriodIndex"]_vars

\* C11 (as stated): a claim is admitted only if its period_index is
\* floor((now - start_ts) / period_seconds), and a claim naming any other
\* index whose other checks pass (accounts, gate, companion instruction, a
\* valid proof for its grant and recipient, a started and unexpired grant)
\* is refused with InvalidPeriodIndex.
C11_OtherIndexFailsInvalidPeriodIndex ==
    [][ClaimStep
        => /\ last'.err = "Ok"
                 => last'.req.period_index = CurrentPeriodIndex(last'.req.grant)
           /\ (/\ PrePeriodBinding(last'.req)
               /\ ValidProof(last'.req)
               /\ ~Expired(last'.req.grant)
               /\ ~NotStarted(last'.req.grant)
               /\ now - grant[last'.req.grant].start_ts <= I64_MAX
               /\ last'.req.period_index # CurrentPeriodIndex(last'.req.grant))
                 => last'.err = "InvalidPeriodIndex"]_vars

\* 500 seconds into the last period, a claim for the period before it was
\* refused with InvalidPeriodIndex after the claim for the last period had
\* been admitted
C11_Witness ==
    /\ last.op \in ClaimOps
    /\ last.err = "InvalidPeriodIndex"
    /\ grant[last.req.grant].start_ts = StartTs
    /\ now = StartTs + MaxPeriod * DEFAULT_MONTH_SECONDS + 500
    /\ last.req.period_index = MaxPeriod - 1
    /\ ReceiptExists(receipts, last.req.grant, last.req.claimer, MaxPeriod)

\* C12: no claim is admitted on an expired grant (expires_at # 0 and
\* now > expires_at) or before start_ts; a claim passing every earlier check
\* is refused with GrantExpired resp. GrantNotStarted; neither error is
\* raised at now = expires_at, at now = start_ts or with expires_at = 0.
C12_ClaimWindow ==
    [][ClaimStep
        => /\ (Expired(last'.req.grant) \/ NotStarted(last'.req.grant))
                 => last'.err # "Ok"
           /\ (PreTiming(last'.req) /\ Expired(last'.req.grant))
                 => last'.err = "GrantExpired"
           /\ (/\ PreTiming(last'.req)
               /\ ~Expired(last'.req.grant)
               /\ NotStarted(last'.req.grant))
                 => last'.err = "GrantNotStarted"
           /\ last'.err = "GrantExpired" => Expired(last'.req.grant)
           /\ last'.err = "GrantNotStarted" => NotStarted(last'.req.grant)]_vars

\* a claim was admitted at now = start_ts = expires_at
C12_Witness ==
    /\ last.op \in ClaimOps
    /\ last.err = "Ok"
    /\ now = grant[last.req.grant].start_ts
    /\ now = grant[last.req.grant].expires_at

-----------------------------------------------------------------------------
(* Allowlist *)

\* the accounts load, no receipt exists for the triple and the grant is not
\* paused: the claim reaches the allowlist gate
ReachesAllowlistGate(req) ==
    /\ AccountsLoad(req)
    /\ NoReceiptYet(req)
    /\ ~grant[req.grant].paused

Verifies(req) ==
    verify_merkle_sorted(grant[req.grant].merkle_root,
                         allowlist_leaf(req.claimer), req.proof)

\* C13 (as the program behaves): of the claims reaching the allowlist gate,
\* claim_grant_with_proof on a grant with an all-zero merkle_root is refused
\* with AllowlistNotEnabled; on a grant with a non-zero merkle_root
\* claim_grant (no proof) is refused with AllowlistRequired and
\* claim_grant_with_proof with a proof that does not verify is refused with
\* NotInAllowlist; while the root is non-zero only claims with a verifying
\* proof are admitted.
C13_AllowlistGate ==
    [][ClaimStep
        => /\ (/\ ReachesAllowlistGate(last'.req)
               /\ grant[last'.req.grant].merkle_root = 0
               /\ last'.req.ix = "claim_grant_with_proof")
                 => last'.err = "AllowlistNotEnabled"
           /\ (/\ ReachesAllowlistGate(last'.req)
               /\ grant[last'.req.grant].merkle_root # 0
               /\ last'.req.ix = "claim_grant")
                 => last'.err = "AllowlistRequired"
           /\ (/\ ReachesAllowlistGate(last'.req)
               /\ grant[last'.req.grant].merkle_root # 0
               /\ last'.req.ix = "claim_grant_with_proof"
               /\ ~Verifies(last'.req))
                 => last'.err = "NotInAllowlist"
           /\ (last'.err = "Ok" /\ grant[last'.req.grant].merkle_root # 0)
                 => /\ last'.req.ix = "claim_grant_with_proof"
                    /\ Verifies(last'.req)]_vars

\* C13 (as stated): as above, but a claim without a proof on a grant with a
\* non-zero merkle_root is refused with NotInAllowlist.
C13_NoProofFailsNotInAllowlist ==
    [][ClaimStep
        => /\ (/\ ReachesAllowlistGate(last'.req)
               /\ grant[last'.req.grant].merkle_root = 0
               /\ last'.req.ix = "claim_grant_with_proof")
                 => last'.err = "AllowlistNotEnabled"
           /\ (/\ ReachesAllowlistGate(last'.req)
               /\ grant[last'.req.grant].merkle_root # 0
               /\ \/ last'.req.ix = "claim_grant"
                  \/ ~Verifies(last'.req))
                 => last'.err = "NotInAllowlist"
           /\ (last'.err = "Ok" /\ grant[last'.req.grant].merkle_root # 0)
                 => /\ last'.req.ix = "claim_grant_with_proof"
                    /\ Verifies(last'.req)]_vars

\* on a grant whose allowlist has admitted a recipient with a verifying
\* proof, a claim without a proof was refused with AllowlistRequired
C13_Witness ==
    /\ last.op = "claim_grant"
    /\ last.err = "AllowlistRequired"
    /\ grant[last.req.grant].merkle_root = AllowlistRoot
    /\ \E r \in receipts : r.grant = last.req.grant /\ r.claimer = "r1"
    /\ accepted[last.req.grant] # NoMessage

-----------------------------------------------------------------------------
(* The pure functions applied to inputs drawn from bounded sets. In this   *)
(* specification `last` holds the call made last: its name, its inputs     *)
(* (req), its error and its result (out); the accounts are never touched.  *)

Call(op, err, req, out) == [op |-> op, err |-> err, req |-> req, out |-> out]

Accounts == <<now, grant, vault, tokens, receipts, pop_state, pop_config,
              accepted, paid>>

\* an allowlist tree over four identities, built off-chain with the
\* sorted-pair rule; r5 is not in it
Members == <<"r1", "r2", "r3", "r4">>
Identities == {"r1", "r2", "r3", "r4", "r5"}

MerkleParent(a, b) == IF a <= b THEN sha256_pair(a, b) ELSE sha256_pair(b, a)

MemberLeaf(i) == allowlist_leaf(Members[i])

LeftNode == MerkleParent(MemberLeaf(1), MemberLeaf(2))
RightNode == MerkleParent(MemberLeaf(3), MemberLeaf(4))
TreeRoot == MerkleParent(LeftNode, RightNode)

\* the sibling leaf, then the root of the other half
MemberProof(i) ==
    CASE i = 1 -> <<MemberLeaf(2), RightNode>>
      [] i = 2 -> <<MemberLeaf(1), RightNode>>
      [] i = 3 -> <<MemberLeaf(4), LeftNode>>
      [] OTHER -> <<MemberLeaf(3), LeftNode>>

\* the digests put in the place of a proof element: any leaf for the first
\* element, any leaf or inner node for the second
ProofElements(pos) ==
    {allowlist_leaf(id) : id \in Identities}
        \cup (IF pos = 1 THEN {} ELSE {LeftNode, RightNode})

\* a member's proof, one with a single element replaced, and their prefixes
ChangedProofs(pos) ==
    {SubSeq([MemberProof(i) EXCEPT ![pos] = e], 1, n) :
        i \in 1 .. 4, e \in ProofElements(pos), n \in 0 .. 2}

MerkleProofs == ChangedProofs(1) \cup ChangedProofs(2)

MerkleRoots == {TreeRoot, LeftNode} \cup {allowlist_leaf(id) : id \in Identities}

Apply_verify_merkle_sorted ==
    /\ Ready
    /\ \E root \in MerkleRoots, id \in Identities, proof \in MerkleProofs :
          last' = Call("verify_merkle_sorted", "Ok",
                       [root |-> root, identity |-> id, proof |-> proof],
                       verify_merkle_sorted(root, allowlist_leaf(id), proof))
    /\ UNCHANGED Accounts

\* ed25519 instruction data of the SDK's length holding two keys and a
\* version-1 message, under headers pointing at, next to and past them
SampleMessage ==
    SignedMessage(POP_MESSAGE_VERSION_V1, GrantPda(1), "r1", 0, ZERO_HASH,
                  ZERO_HASH, ZERO_HASH, StartTs)

SampleLen == 112 + POP_MESSAGE_LEN_V1

SampleBytes ==
    (<<16, 32>> :> TrustedSigner) @@ (<<80, 32>> :> OtherSigner)
        @@ (<<112, POP_MESSAGE_LEN_V1>>
               :> MessageBytes(SampleMessage, POP_MESSAGE_LEN_V1))

Ed25519Data ==
    [len : {0, 15, 16, SampleLen},
     num_signatures : {0, 1, 2},
     signature_offset : {48, SampleLen - 64, SampleLen - 63, U16_MAX},
     signature_instruction_index : {U16_MAX, 0},
     public_key_offset : {16, 80, SampleLen - 32, SampleLen - 31},
     public_key_instruction_index : {U16_MAX, 0},
     message_data_offset : {112, 113},
     message_data_size : {0, POP_MESSAGE_LEN_V1 - 1, POP_MESSAGE_LEN_V1},
     message_instruction_index : {U16_MAX, 0},
     bytes : {SampleBytes}]

Apply_extract_ed25519_signer_and_message ==
    /\ Ready
    /\ \E data \in Ed25519Data :
          \E ix \in {[program_id |-> ED25519_PROGRAM, data |-> data]} :
             \E ex \in {extract_ed25519_signer_and_message(ix)} :
                last' = Call("extract_ed25519_signer_and_message", ex.err, ix,
                             ex)
    /\ UNCHANGED Accounts

\* messages of every length around the two expected ones, with first
\* bytes 0 to 3
MessageLengths ==
    {0, 1, 113, 145,
     POP_MESSAGE_LEN_V1 - 1, POP_MESSAGE_LEN_V1, POP_MESSAGE_LEN_V1 + 1,
     POP_MESSAGE_LEN_V2 - 1, POP_MESSAGE_LEN_V2, POP_MESSAGE_LEN_V2 + 1}

Apply_parse_pop_message ==
    /\ Ready
    /\ \E len \in MessageLengths, version \in 0 .. 3,
          audit \in {ZERO_HASH, AUDIT_HASH}, c \in Claimers, p \in Periods :
          \E message \in {MessageBytes([SampleMessage EXCEPT
                                            !.version = version,
                                            !.audit_hash = audit,
                                            !.claimer = c,
                                            !.period_index = p], len)} :
             \E parsed \in {parse_pop_message(message)} :
                last' = Call("parse_pop_message", parsed.err, message,
                             parsed.msg)
    /\ UNCHANGED Accounts

PureNext ==
    \/ Apply_verify_merkle_sorted
    \/ Apply_extract_ed25519_signer_and_message
    \/ Apply_parse_pop_message

PureSpec == Init /\ [][PureNext]_vars

-----------------------------------------------------------------------------
(* Allowlist membership *)

\* the proof folded over a digest, the smaller operand hashed first
RECURSIVE SortedFold(_, _)
SortedFold(digest, proof) ==
    IF proof = <<>> THEN digest
    ELSE SortedFold(MerkleParent(digest, Head(proof)), Tail(proof))

\* proof is the proof of member i with exactly one element changed
OneElementChanged(proof, i) ==
    /\ Len(proof) = Len(MemberProof(i))
    /\ \E pos \in 1 .. Len(proof) :
          /\ proof[pos] # MemberProof(i)[pos]
          /\ \A q \in 1 .. Len(proof) : q # pos => proof[q] = MemberProof(i)[q]

\* C14: verify_merkle_sorted(root, allowlist_leaf(identity), proof) is true
\* exactly when folding the proof over the identity's leaf with sorted-pair
\* hashing yields the root; an empty proof verifies iff leaf = root; in a
\* tree built with the same rule every member's proof verifies, and it fails
\* once a single proof element or the leaf is changed.
C14_MerkleMembership ==
    last.op = "verify_merkle_sorted"
        => LET leaf == sha256_pair(0, KeyBytes(last.req.identity))
               proof == last.req.proof
           IN /\ last.out = (SortedFold(leaf, proof) = last.req.root)
              /\ proof = <<>> => (last.out = (leaf = last.req.root))
              /\ \A i \in 1 .. 4 :
                    last.req.root = TreeRoot
                       => /\ (/\ last.req.identity = Members[i]
                              /\ proof = MemberProof(i)) => last.out
                          /\ (/\ last.req.identity = Members[i]
                              /\ OneElementChanged(proof, i)) => ~last.out
                          /\ (/\ last.req.identity # Members[i]
                              /\ proof = MemberProof(i)) => ~last.out

\* r2's proof verified against the tree's root: its leaf is the larger
\* operand of the first pair and the smaller of the second
C14_Witness ==
    /\ last.op = "verify_merkle_sorted"
    /\ last.out
    /\ last.req.identity = "r2"
    /\ last.req.root = TreeRoot
    /\ last.req.proof = MemberProof(2)
    /\ allowlist_leaf("r2") > last.req.proof[1]
    /\ MerkleParent(allowlist_leaf("r2"), last.req.proof[1]) < last.req.proof[2]

-----------------------------------------------------------------------------
(* Signer and binding *)

\* the instruction before the claim
Companion(req) == InstructionAt(req.tx, req.tx.current_index - 1)

\* the claim reaches the signer check: the accounts load, no receipt exists,
\* the gate is open and the instruction before the claim is a well-formed
\* ed25519 instruction
ReachesSignerCheck(req) ==
    /\ AccountsLoad(req)
    /\ NoReceiptYet(req)
    /\ GateOpen(req)
    /\ req.tx.current_index > 0
    /\ Companion(req).program_id = ED25519_PROGRAM
    /\ extract_ed25519_signer_and_message(Companion(req)).err = "Ok"

ExtractedSigner(req) ==
    extract_ed25519_signer_and_message(Companion(req)).signer_pubkey

\* claims signed by either signer
SignedClaims(g) ==
    {Honest(g, c, p, POP_MESSAGE_VERSION_V1, 0) : c \in Claimers, p \in Periods}
        \cup {Malformed(g, c, p, 7) : c \in Claimers, p \in Periods}

\* C15: a claim is admitted only if the public key extracted from the
\* companion instruction is the registered signer_pubkey and the message's
\* grant, recipient and period_index are the request's; a claim reaching
\* the respective check is refused with InvalidPopSigner,
\* PopProofGrantMismatch, PopProofClaimerMismatch or PopProofPeriodMismatch;
\* once upsert_pop_config has changed the signer, no claim signed by another
\* key is admitted.
C15_SignerAndBinding ==
    [][/\ ClaimStep
          => /\ last'.err = "Ok"
                   => /\ ExtractedSigner(last'.req) = pop_config.signer_pubkey
                      /\ MessageOf(last'.req).grant = last'.req.grant
                      /\ MessageOf(last'.req).claimer = last'.req.claimer
                      /\ MessageOf(last'.req).period_index
                            = last'.req.period_index
             /\ (/\ ReachesSignerCheck(last'.req)
                 /\ ExtractedSigner(last'.req) # pop_config.signer_pubkey)
                   => last'.err = "InvalidPopSigner"
             /\ (/\ AccountsLoad(last'.req) /\ NoReceiptYet(last'.req)
                 /\ GateOpen(last'.req) /\ CompanionOk(last'.req))
                   => IF MessageOf(last'.req).grant # last'.req.grant
                      THEN last'.err = "PopProofGrantMismatch"
                      ELSE IF MessageOf(last'.req).claimer # last'.req.claimer
                      THEN last'.err = "PopProofClaimerMismatch"
                      ELSE IF MessageOf(last'.req).period_index
                                 # last'.req.period_index
                      THEN last'.err = "PopProofPeriodMismatch"
                      ELSE last'.err \notin {"InvalidPopSigner",
                                             "PopProofGrantMismatch",
                                             "PopProofClaimerMismatch",
                                             "PopProofPeriodMismatch"}
       /\ (last.op = "idle" /\ last'.op = "upsert_pop_config")
          => \A b \in SignedClaims(GrantPda(1)) :
                ExtractedSigner(b) # pop_config'.signer_pubkey
                   => Afterwards(b).err # "Ok"]_vars

\* after a claim had been admitted the signer was changed, and a claim
\* signed by the former signer was refused with InvalidPopSigner
C15_Witness ==
    /\ last.op \in ClaimOps
    /\ last.err = "InvalidPopSigner"
    /\ ExtractedSigner(last.req) = TrustedSigner
    /\ pop_config.signer_pubkey = OtherSigner
    /\ accepted[last.req.grant] # NoMessage
    /\ \E r \in receipts : r.grant = last.req.grant

-----------------------------------------------------------------------------
(* Companion signature instruction *)

\* the request with every instruction other than the one right before the
\* claim replaced
OnlyCompanion(req) ==
    [req EXCEPT !.tx.instructions =
        [i \in DOMAIN @ |-> IF i = req.tx.current_index THEN @[i] ELSE ClaimIx]]

\* C16: a claim that reaches the proof check as the transaction's first
\* instruction (index 0) is refused with MissingPopSignatureInstruction; one
\* whose preceding instruction does not target the ed25519 program is
\* refused with InvalidPopSignatureProgram; a claim is admitted only with an
\* ed25519 instruction right before it, and its outcome is the same
\* whatever the transaction's other instructions are.
C16_CompanionInstruction ==
    [][ClaimStep
        => /\ (/\ AccountsLoad(last'.req) /\ NoReceiptYet(last'.req)
               /\ GateOpen(last'.req)
               /\ last'.req.tx.current_index = 0)
                 => last'.err = "MissingPopSignatureInstruction"
           /\ (/\ AccountsLoad(last'.req) /\ NoReceiptYet(last'.req)
               /\ GateOpen(last'.req)
               /\ last'.req.tx.current_index > 0
               /\ Companion(last'.req).program_id # ED25519_PROGRAM)
                 => last'.err = "InvalidPopSignatureProgram"
           /\ last'.err = "Ok"
                 => /\ last'.req.tx.current_index > 0
                    /\ Companion(last'.req).program_id = ED25519_PROGRAM
           /\ ProcessClaim(Chain, now, OnlyCompanion(last'.req)).err
                 = last'.err]_vars

\* an ed25519 instruction two places before the claim, with another
\* instruction between them, was refused with InvalidPopSignatureProgram
C16_Witness ==
    /\ last.op \in ClaimOps
    /\ last.err = "InvalidPopSignatureProgram"
    /\ last.req.tx.current_index = 2
    /\ last.req.tx.instructions[1].program_id = ED25519_PROGRAM
    /\ last.req.tx.instructions[2].program_id # ED25519_PROGRAM

-----------------------------------------------------------------------------
(* Signature co-instruction extractor *)

\* the conditions under which the extractor rejects the instruction data
ExtractorRejects(data) ==
    \/ data.num_signatures # 1
    \/ data.signature_instruction_index # 65535
    \/ data.public_key_instruction_index # 65535
    \/ data.message_instruction_index # 65535
    \/ data.signature_offset + 64 > data.len
    \/ data.public_key_offset + 32 > data.len
    \/ data.message_data_offset + data.message_data_size > data.len

\* C17: the extractor rejects the instruction data whenever the component
\* count is not 1, one of the three instruction-index fields is not 0xFFFF,
\* or signature_offset + 64, public_key_offset + 32 or
\* message_data_offset + message_data_size exceeds the data length;
\* otherwise it returns exactly the 32 bytes at public_key_offset and the
\* message_data_size bytes at message_data_offset.
C17_ExtractorContract ==
    last.op = "extract_ed25519_signer_and_message"
        => LET data == last.req.data
           IN /\ ExtractorRejects(data) <=> last.err # "Ok"
              /\ last.err \in {"Ok", "InvalidPopSignatureData"}
              /\ last.err = "Ok"
                    => /\ <<data.public_key_offset, 32>> \in DOMAIN data.bytes
                          => last.out.signer_pubkey
                                = data.bytes[<<data.public_key_offset, 32>>]
                       /\ <<data.public_key_offset, 32>> \notin DOMAIN data.bytes
                          => last.out.signer_pubkey \notin Signers
                       /\ last.out.message_bytes.len = data.message_data_size
                       /\ <<data.message_data_offset, data.message_data_size>>
                             \in DOMAIN data.bytes
                          => last.out.message_bytes
                                = data.bytes[<<data.message_data_offset,
                                               data.message_data_size>>]
                       /\ <<data.message_data_offset, data.message_data_size>>
                             \notin DOMAIN data.bytes
                          => last.out.message_bytes.version
                                # SampleMessage.version

\* the key at offset 80 was returned for a header whose public_key_offset
\* is 80 and whose signature ends with the data
C17_Witness ==
    /\ last.op = "extract_ed25519_signer_and_message"
    /\ last.err = "Ok"
    /\ last.req.data.public_key_offset = 80
    /\ last.out.signer_pubkey = OtherSigner
    /\ last.req.data.signature_offset + 64 = last.req.data.len
    /\ last.out.message_bytes = MessageBytes(SampleMessage, POP_MESSAGE_LEN_V1)

-----------------------------------------------------------------------------
(* Binary message codec *)

\* the decoder's verdict on a message of the given length and first byte,
\* for the lengths expected of version 1 and version 2
DecodeVerdict(len, version, len_v1, len_v2) ==
    IF len = 0 THEN "InvalidPopMessageLength"
    ELSE IF version \notin {1, 2} THEN "InvalidPopMessageVersion"
    ELSE IF len # (IF version = 1 THEN len_v1 ELSE len_v2)
    THEN "InvalidPopMessageLength"
    ELSE "Ok"

\* C18 (as the program behaves): decode accepts a message only if it is
\* non-empty, its first byte is version 1 or 2 and its length is exactly 177
\* bytes for version 1 and 209 bytes for version 2; an empty message or one
\* of another length fails with InvalidPopMessageLength, one of another
\* version with InvalidPopMessageVersion.
C18_DecodeLengths ==
    last.op = "parse_pop_message"
        => /\ last.err = DecodeVerdict(last.req.len, last.req.version, 177, 209)
           /\ last.err = "Ok"
                 => /\ last.out.version = last.req.version
                    /\ last.out.claimer = last.req.claimer
                    /\ last.out.period_index = last.req.period_index

\* C18 (as stated): the same with 113 bytes for version 1 and 145 bytes for
\* version 2.
C18_DecodeLengths113And145 ==
    last.op = "parse_pop_message"
        => last.err = DecodeVerdict(last.req.len, last.req.version, 113, 145)

\* a version-2 message of 209 bytes was decoded
C18_Witness ==
    /\ last.op = "parse_pop_message"
    /\ last.err = "Ok"
    /\ last.req.version = 2
    /\ last.req.len = 209
    /\ last.out.version = 2

-----------------------------------------------------------------------------
(* Message versions *)

\* the version-1 and version-2 entry hashes of a message's fields
EntryHashV1(m) ==
    <<"we-ne:pop:v1", m.prev_hash, m.stream_prev_hash, m.grant, m.claimer,
      m.period_index, m.issued_at>>

EntryHashV2(m) ==
    <<"we-ne:pop:v2", m.prev_hash, m.stream_prev_hash, m.audit_hash, m.grant,
      m.claimer, m.period_index, m.issued_at>>

\* the claim reaches the audit-hash check: every earlier check passes and
\* the message names the request's grant, recipient and period
ReachesAuditCheck(req) ==
    /\ PrePeriodBinding(req)
    /\ MessageOf(req).period_index = req.period_index

\* C19: no claim with a version-2 message whose audit_hash is all-zero is
\* admitted (one reaching the check fails with PopAuditHashMissing); an
\* admitted version-1 message is decoded with an all-zero audit_hash and
\* carries the entry hash computed without audit_hash under the version-1
\* tag, an admitted version-2 message the one computed with audit_hash
\* under the version-2 tag; the two differ, and a version-2 message carrying
\* the version-1 entry hash of its fields is never admitted.
C19_VersionsKeptApart ==
    [][ClaimStep
        => LET m == MessageOf(last'.req)
           IN /\ (m.version = 2 /\ m.audit_hash = ZERO_HASH)
                    => last'.err # "Ok"
              /\ (/\ ReachesAuditCheck(last'.req)
                  /\ m.version = 2 /\ m.audit_hash = ZERO_HASH)
                    => last'.err = "PopAuditHashMissing"
              /\ (last'.err = "Ok" /\ m.version = 1)
                    => /\ m.audit_hash = ZERO_HASH
                       /\ m.entry_hash = EntryHashV1(m)
              /\ (last'.err = "Ok" /\ m.version = 2)
                    => /\ m.entry_hash = EntryHashV2(m)
                       /\ m.entry_hash # EntryHashV1(m)
              /\ (m.version = 2 /\ m.entry_hash = EntryHashV1(m))
                    => last'.err # "Ok"
              /\ (/\ ReachesAuditCheck(last'.req)
                  /\ m.version = 2 /\ m.audit_hash # ZERO_HASH
                  /\ m.entry_hash = EntryHashV1(m))
                    => last'.err = "PopEntryHashMismatch"]_vars

\* a version-2 message with an audit hash, carrying the version-1 entry
\* hash of its other fields, was refused with PopEntryHashMismatch
C19_Witness ==
    /\ last.op \in ClaimOps
    /\ last.err = "PopEntryHashMismatch"
    /\ MessageOf(last.req).version = 2
    /\ MessageOf(last.req).audit_hash # ZERO_HASH
    /\ MessageOf(last.req).entry_hash = EntryHashV1(MessageOf(last.req))
    /\ Continuous(pop_state[last.req.grant], MessageOf(last.req))

-----------------------------------------------------------------------------
(* Checked arithmetic *)

\* the claim reaches the skew check: every earlier check passes, the message
\* is bound to the request and carries the recomputed entry hash
ReachesSkewCheck(req) ==
    /\ AccountsLoad(req)
    /\ NoReceiptYet(req)
    /\ GateOpen(req)
    /\ CompanionOk(req)
    /\ Bound(req, MessageOf(req))
    /\ HashCorrect(MessageOf(req))

\* now - start_ts of the request's grant
Elapsed(req) == now - grant[req.grant].start_ts

\* the ends of the three ranges the ed25519 header of the request names
RangeEnds(req) ==
    IF req.tx.current_index > 0 /\ Companion(req).data.len >= 16
    THEN {Companion(req).data.signature_offset + 64,
          Companion(req).data.public_key_offset + 32,
          Companion(req).data.message_data_offset
             + Companion(req).data.message_data_size}
    ELSE {}

\* C20: a claim reaching the skew check whose |now - issued_at| is not a
\* representable number, and a claim reaching the period computation whose
\* now - start_ts is not, are refused with MathOverflow; a claim is admitted
\* only if both are representable; MathOverflow has no other cause, the
\* ends of the ranges named by an ed25519 header being representable always.
C20_CheckedArithmetic ==
    [][ClaimStep
        => /\ (/\ ReachesSkewCheck(last'.req)
               /\ SkewOf(MessageOf(last'.req)) > I64_MAX)
                 => last'.err = "MathOverflow"
           /\ (/\ PreTiming(last'.req)
               /\ ~Expired(last'.req.grant)
               /\ ~NotStarted(last'.req.grant)
               /\ Elapsed(last'.req) > I64_MAX)
                 => last'.err = "MathOverflow"
           /\ last'.err = "Ok"
                 => /\ SkewOf(MessageOf(last'.req)) <= I64_MAX
                    /\ Elapsed(last'.req) <= I64_MAX
           /\ last'.err = "MathOverflow"
                 => \/ SkewOf(MessageOf(last'.req)) > I64_MAX
                    \/ Elapsed(last'.req) > I64_MAX
           /\ \A end \in RangeEnds(last'.req) : end <= USIZE_MAX]_vars

\* a claim whose proof was issued at the least timestamp was refused with
\* MathOverflow on a grant that has started
C20_Witness ==
    /\ last.op \in ClaimOps
    /\ last.err = "MathOverflow"
    /\ MessageOf(last.req).issued_at = I64_MIN
    /\ grant[last.req.grant].start_ts = StartTs
    /\ now >= StartTs

-----------------------------------------------------------------------------
(* Grant lifecycle *)

\* the terms of a grant fixed at its creation
GrantTerms(g) ==
    <<grant[g].amount_per_period, grant[g].period_seconds, grant[g].start_ts,
      grant[g].expires_at, grant[g].authority, grant[g].mint, grant[g].grant_id>>

\* C21: once a grant exists, no step other than close_grant changes its
\* amount_per_period, period_seconds, start_ts, expires_at, authority, mint
\* or grant_id, its paused flag changes only by set_paused and its
\* merkle_root only by set_allowlist_root; create_grant called again for
\* the same grant resets none of them.
C21_GrantCreatedOnce ==
    [][\A g \in GrantKeys :
          (grant[g].exists /\ last'.op # "close_grant")
             => /\ GrantTerms(g)' = GrantTerms(g)
                /\ grant'[g].paused # grant[g].paused
                      => last'.op = "set_paused"
                /\ grant'[g].merkle_root # grant[g].merkle_root
                      => last'.op = "set_allowlist_root"]_vars

-----------------------------------------------------------------------------
(* Pause *)

\* every claim for a grant whose paused flag is set is rejected, with
\* Paused once its accounts load, and changes nothing
ClaimsRejectedWhilePaused ==
    (ClaimStep /\ grant[last'.req.grant].paused)
       => /\ last'.err # "Ok"
          /\ UNCHANGED Ledger
          /\ (AccountsLoad(last'.req) /\ NoReceiptYet(last'.req))
                => last'.err = "Paused"

\* the paused flag of an existing grant stays set until set_paused clears it
PausedUntilUnpaused ==
    \A g \in GrantKeys :
       (grant[g].paused /\ grant'[g].exists /\ ~grant'[g].paused)
          => last'.op = "set_paused"

-----------------------------------------------------------------------------
(* The order of the admission checks *)

\* the admission checks of a claim, each by what it requires of the request
\* and of the accounts it names
StagePasses(stage, req) ==
    CASE stage = "grant" -> grant[req.grant].exists
      [] stage = "receipt" -> NoReceiptYet(req)
      [] stage = "pop_config" -> AccountsLoad(req)
      [] stage = "paused" -> ~grant[req.grant].paused
      [] stage = "allowlist" -> GateOpen(req)
      [] stage = "binding" -> CompanionOk(req) /\ Bound(req, MessageOf(req))
      [] stage = "entry_hash" -> HashCorrect(MessageOf(req))
      [] stage = "skew" -> SkewOf(MessageOf(req)) <= 600
      [] stage = "chain" -> Continuous(pop_state[req.grant], MessageOf(req))
      [] stage = "period" -> TimingOk(req)
      [] stage = "transfer" -> Funded(req)

\* the errors with which each check rejects a request
StageErrors(stage) ==
    CASE stage = "grant" -> {"AccountNotInitialized"}
      [] stage = "receipt" -> {"AccountAlreadyInUse"}
      [] stage = "pop_config" ->
            {"AccountNotInitialized", "InvalidPopConfigAuthority"}
      [] stage = "paused" -> {"Paused"}
      [] stage = "allowlist" ->
            {"AllowlistRequired", "AllowlistNotEnabled", "NotInAllowlist"}
      [] stage = "binding" ->
            {"MissingPopSignatureInstruction", "InvalidPopSignatureProgram",
             "InvalidPopSignatureData", "MathOverflow", "InvalidPopSigner",
             "InvalidPopMessageLength", "InvalidPopMessageVersion",
             "PopProofGrantMismatch", "PopProofClaimerMismatch",
             "PopProofPeriodMismatch", "PopAuditHashMissing"}
      [] stage = "entry_hash" -> {"PopEntryHashMismatch"}
      [] stage = "skew" -> {"MathOverflow", "PopProofExpired"}
      [] stage = "chain" ->
            {"PopStateGrantMismatch", "PopHashChainBroken",
             "PopStreamChainBroken", "PopGenesisMismatch"}
      [] stage = "period" ->
            {"GrantExpired", "GrantNotStarted", "MathOverflow",
             "InvalidPeriodIndex"}
      [] stage = "transfer" -> {"InsufficientFunds"}
      [] stage = "none" -> {"Ok"}

\* the first check of an order that the request fails, "none" if it passes
\* them all
RECURSIVE FirstViolated(_, _)
FirstViolated(order, req) ==
    IF order = <<>> THEN "none"
    ELSE IF ~StagePasses(Head(order), req) THEN Head(order)
    ELSE FirstViolated(Tail(order), req)

\* the order of the statement: pause, allowlist, companion instruction with
\* decoding and binding, hash chain, skew, period, transfer and receipt
OrderAsStated ==
    <<"grant", "pop_config", "paused", "allowlist", "binding", "entry_hash",
      "chain", "skew", "period", "transfer", "receipt">>

\* the order of the program: the receipt is created while the accounts load,
\* and the skew is checked between the entry hash and the chain
OrderOfProgram ==
    <<"grant", "receipt", "pop_config", "paused", "allowlist", "binding",
      "entry_hash", "skew", "chain", "period", "transfer">>

\* C23 (as stated): a claim is rejected with the error of the earliest check
\* it violates in the order pause, allowlist, companion instruction with
\* decoding and binding, hash chain, skew, period, transfer and receipt; so
\* a message that breaks the chain and is staler than 600 seconds fails with
\* a chain error.
C23_StatedOrder ==
    [][ClaimStep
        => last'.err \in StageErrors(FirstViolated(OrderAsStated, last'.req))]_vars

\* C23 (as the program behaves): a claim is rejected with the error of the
\* earliest check it violates in the order receipt creation (with the
\* accounts), pause, allowlist, companion instruction with decoding and
\* binding, entry hash, skew, chain continuity, period, transfer, and is
\* admitted when it violates none; so a correctly hashed message that breaks
\* the chain and is staler than 600 seconds fails with PopProofExpired.
C23_AdmissionOrder ==
    [][ClaimStep
        => /\ last'.err
                \in StageErrors(FirstViolated(OrderOfProgram, last'.req))
           /\ (/\ FirstViolated(OrderOfProgram, last'.req) = "skew"
               /\ ~Continuous(pop_state[last'.req.grant], MessageOf(last'.req))
               /\ SkewOf(MessageOf(last'.req)) <= I64_MAX)
                 => last'.err = "PopProofExpired"]_vars

\* a correctly hashed proof that is 601 seconds old and does not continue
\* the recorded chain was refused as expired
C23_Witness ==
    /\ last.op \in ClaimOps
    /\ last.err = "PopProofExpired"
    /\ HashCorrect(MessageOf(last.req))
    /\ now - MessageOf(last.req).issued_at = 601
    /\ pop_state[last.req.grant].initialized
    /\ Discontinuous(pop_state[last.req.grant], MessageOf(last.req))

-----------------------------------------------------------------------------
(* Resubmission after a chain rejection *)

\* the errors of the continuity checks, the genesis rule included
ContinuityErrors == ChainBrokenErrors \cup {"PopGenesisMismatch"}

\* the rejected request submitted again, with a proof issued against the
\* recorded chain state
Resubmission(req, v, off) ==
    [Honest(req.grant, req.claimer, req.period_index, v, off) EXCEPT
        !.ix = req.ix, !.proof = req.proof]

\* proofs by version and issue time, within the skew bound
FreshProofs ==
    {<<POP_MESSAGE_VERSION_V1, -POP_MAX_SKEW_SECONDS>>,
     <<POP_MESSAGE_VERSION_V1, 0>>,
     <<POP_MESSAGE_VERSION_V2, POP_MAX_SKEW_SECONDS>>}

\* C24: a claim rejected by a chain-continuity check leaves no receipt for
\* its (grant, recipient, period) triple, and the same request resubmitted
\* in the same period with a proof whose previous hashes equal the recorded
\* chain state is admitted, provided the request names the current period
\* of an open claim window and the vault holds the amount.
C24_ResubmissionAdmitted ==
    [][(ClaimStep /\ last'.err \in ContinuityErrors)
        => \A req \in {last'.req} :
              /\ NoReceiptYet(req)'
              /\ (TimingOk(req)' /\ Funded(req)')
                    => \A vs \in FreshProofs :
                         /\ ~Discontinuous(
                                pop_state[req.grant],
                                MessageOf(Resubmission(req, vs[1], vs[2])))'
                         /\ Afterwards(Resubmission(req, vs[1], vs[2])').err
                               = "Ok"]_vars

\* a claim was rejected for a broken chain on an initialized chain, in the
\* current period of a funded grant, and its resubmission with a proof
\* chained on the recorded state is admissible
C24_Witness ==
    /\ last.op \in ClaimOps
    /\ last.err \in ChainBrokenErrors
    /\ pop_state[last.req.grant].initialized
    /\ TimingOk(last.req)
    /\ Funded(last.req)
    /\ NoReceiptYet(last.req)
    /\ ProcessClaim(Chain, now,
                    Resubmission(last.req, POP_MESSAGE_VERSION_V1, 0)).err
          = "Ok"

-----------------------------------------------------------------------------
(* The life of the proof-of-process state *)

\* the step admits a claim on grant g
Admits(g) == ClaimStep /\ last'.err = "Ok" /\ last'.req.grant = g

\* C25: the proof-of-process state of a grant changes in a step exactly when
\* the step admits a claim on the grant: then its hashes become the entry
\* hash of the admitted message; once initialized it stays initialized and
\* bound to its grant, and its hashes are never all-zero again, so a message
\* with all-zero previous hashes is admitted only on the uninitialized state,
\* at most once in the life of the grant, closing and creating the grant
\* again included.
C25_PopStateChangesOncePerAdmittedClaim ==
    [][\A g \in GrantKeys :
         /\ pop_state'[g] # pop_state[g] <=> Admits(g)
         /\ Admits(g)
              => /\ pop_state'[g].initialized
                 /\ pop_state'[g].grant = g
                 /\ pop_state'[g].last_global_hash
                       = MessageOf(last'.req).entry_hash
                 /\ pop_state'[g].last_stream_hash
                       = MessageOf(last'.req).entry_hash
         /\ pop_state[g].initialized
              => /\ pop_state'[g].initialized
                 /\ pop_state'[g].grant = pop_state[g].grant
                 /\ pop_state[g].last_global_hash # ZERO_HASH
                 /\ pop_state[g].last_stream_hash # ZERO_HASH
         /\ (/\ Admits(g)
             /\ MessageOf(last'.req).prev_hash = ZERO_HASH
             /\ MessageOf(last'.req).stream_prev_hash = ZERO_HASH)
              => ~pop_state[g].initialized]_vars

\* a second claim was admitted on an initialized chain: its message is
\* chained on an earlier entry hash, another recipient holds a receipt of
\* the grant, and the state records the entry hash of the second
C25_Witness ==
    /\ last.op \in ClaimOps
    /\ last.err = "Ok"
    /\ pop_state[last.req.grant].initialized
    /\ pop_state[last.req.grant].grant = last.req.grant
    /\ MessageOf(last.req).prev_hash # ZERO_HASH
    /\ pop_state[last.req.grant].last_global_hash
          = MessageOf(last.req).entry_hash
    /\ \E r \in receipts :
          /\ r.grant = last.req.grant
          /\ r.claimer # last.req.claimer

-----------------------------------------------------------------------------
(* Funds *)

RECURSIVE SumOver(_, _)
SumOver(f, keys) ==
    IF keys = {} THEN 0
    ELSE LET k == CHOOSE x \in keys : TRUE
         IN f[k] + SumOver(f, keys \ {k})

\* the tokens held by the vaults, and those paid out to the recipients
InVaults == SumOver(vault, GrantKeys)
PaidOut == SumOver(tokens, Claimers)
Payouts == SumOver(paid, GrantKeys \X Claimers)

\* what was funded and not swept back by close_grant is in the vaults or
\* was paid out by admitted claims, of amount_per_period each
FundsConserved ==
    /\ \A g \in GrantKeys : vault[g] >= 0
    /\ \A k \in DOMAIN tokens : tokens[k] >= 0
    /\ InVaults = (InitFunds - tokens[AUTHORITY]) - PaidOut
    /\ PaidOut = Payouts * Amount

\* the claim reaches the transfer: every earlier check passes
ReachesTransfer(req) ==
    /\ AccountsLoad(req)
    /\ NoReceiptYet(req)
    /\ GateOpen(req)
    /\ CompanionOk(req)
    /\ Bound(req, MessageOf(req))
    /\ ValidProof(req)
    /\ TimingOk(req)

\* C26: an admitted claim moves amount_per_period from the vault of its
\* grant to the tokens of its claimer and changes no other balance; no claim
\* is admitted while the vault holds less than amount_per_period, and one
\* that reaches the transfer then fails with InsufficientFunds; an accepted
\* fund_grant moves its amount from the funder to the vault; apart from
\* close_grant no other step changes a balance; so no balance is ever
\* negative and the vaults hold what was funded and not swept back, less
\* amount_per_period for every admitted claim.
C26_FundsConserved ==
    [][/\ FundsConserved /\ FundsConserved'
       /\ ClaimStep
            => \A req \in {last'.req} :
               \A a \in {grant[req.grant].amount_per_period} :
                 /\ last'.err = "Ok"
                      => /\ a = Amount
                         /\ vault[req.grant] >= a
                         /\ vault' = [vault EXCEPT ![req.grant] = @ - a]
                         /\ tokens' = [tokens EXCEPT ![req.claimer] = @ + a]
                 /\ last'.err # "Ok" => vault' = vault /\ tokens' = tokens
                 /\ (ReachesTransfer(req) /\ vault[req.grant] < a)
                      => last'.err = "InsufficientFunds"
                 /\ last'.err = "InsufficientFunds"
                      => vault[req.grant] < a
       /\ (last'.op = "fund_grant" /\ last'.err = "Ok")
            => \E g \in GrantKeys, a \in 1 .. InitFunds :
                 /\ vault' = [vault EXCEPT ![g] = @ + a]
                 /\ tokens' = [tokens EXCEPT ![AUTHORITY] = @ - a]
       /\ (~ClaimStep /\ last'.op \notin {"fund_grant", "close_grant"})
            => vault' = vault /\ tokens' = tokens]_vars

\* a claim that reached the transfer found the vault empty, after the vault
\* had been funded and paid out to another recipient
C26_Witness ==
    /\ last.op \in ClaimOps
    /\ last.err = "InsufficientFunds"
    /\ vault[last.req.grant] = 0
    /\ tokens[last.req.claimer] = 0
    /\ PaidOut = Amount
    /\ tokens[AUTHORITY] = InitFunds - Amount

-----------------------------------------------------------------------------
(* Two grants of one authority *)

\* a claim on grant g with a correctly signed proof for g that is chained on
\* the recorded state of grant h
Crossed(g, c, h) ==
    Forked(g, c, ClientPeriod(g), POP_MESSAGE_VERSION_V1,
           <<CurrentHash(h), CurrentHash(h)>>, 0)

\* a claim on grant g that presents the proof issued for a claim on grant h
Foreign(g, c, h) ==
    [Honest(h, c, ClientPeriod(g), POP_MESSAGE_VERSION_V1, 0) EXCEPT
        !.grant = g]

\* the authority creates and funds its grants and configures the signer
TwoGrantAdmin ==
    \/ /\ Ready
       /\ \E id \in GrantIds :
            create_grant(id, Amount, DEFAULT_MONTH_SECONDS, StartTs, 0)
    \/ /\ Ready
       /\ \E id \in GrantIds : fund_grant(GrantPda(id), Amount)
    \/ /\ Ready
       /\ upsert_pop_config(TrustedSigner)

\* the claims submitted for either grant
TwoGrantClaims ==
    \/ /\ Ready
       /\ \E g \in GrantKeys, c \in Claimers :
            \E req \in {Honest(g, c, ClientPeriod(g), POP_MESSAGE_VERSION_V1,
                               -POP_MAX_SKEW_SECONDS)} : Claim(req)
    \/ /\ Ready
       /\ \E g \in GrantKeys, c \in Claimers :
            \E h \in GrantKeys \ {g} :
              \E req \in {Crossed(g, c, h)} : Claim(req)
    \/ /\ Ready
       /\ \E g \in GrantKeys, c \in Claimers :
            \E h \in GrantKeys \ {g} :
              \E req \in {Foreign(g, c, h)} : Claim(req)

TwoGrantNext ==
    \/ Observe
    \/ Tick
    \/ TwoGrantAdmin
    \/ TwoGrantClaims

TwoGrantSpec == Init /\ [][TwoGrantNext]_vars

\* the receipts of grant g
ReceiptsOfGrant(g) == {r \in receipts : r.grant = g}

\* the accounts that belong to grant g
AccountsOfGrant(g) == <<grant[g], vault[g], pop_state[g], ReceiptsOfGrant(g)>>

\* C27: a claim on one grant, admitted or rejected, leaves the grant
\* account, vault balance, proof-of-process state and receipts of every
\* other grant unchanged; an admitted claim carries a message that names its
\* own grant and whose previous hashes are not the recorded hashes of
\* another grant's initialized chain; a claim that reaches the binding check
\* with a message naming another grant fails with PopProofGrantMismatch, and
\* one that reaches the chain check with a message chained on another
\* grant's initialized state fails a continuity check.
C27_ClaimsLeaveOtherGrantsUntouched ==
    [][ClaimStep
        => \A req \in {last'.req} :
           \A h \in GrantKeys \ {req.grant} :
             /\ AccountsOfGrant(h)' = AccountsOfGrant(h)
             /\ accepted'[h] = accepted[h]
             /\ last'.err = "Ok"
                  => /\ MessageOf(req).grant = req.grant
                     /\ pop_state'[req.grant].grant = req.grant
                     /\ pop_state[h].initialized
                          => /\ MessageOf(req).prev_hash
                                   # pop_state[h].last_global_hash
                             /\ MessageOf(req).stream_prev_hash
                                   # pop_state[h].last_stream_hash
             /\ (/\ AccountsLoad(req) /\ NoReceiptYet(req) /\ GateOpen(req)
                 /\ CompanionOk(req)
                 /\ MessageOf(req).grant = h)
                  => last'.err = "PopProofGrantMismatch"
             /\ (/\ ReachesSkewCheck(req)
                 /\ SkewOf(MessageOf(req)) <= 600
                 /\ pop_state[h].initialized
                 /\ MessageOf(req).prev_hash = pop_state[h].last_global_hash)
                  => last'.err \in ContinuityErrors]_vars

\* both grants have an initialized chain and receipts of their own, and a
\* claim on one of them whose proof is chained on the state of the other
\* was refused by the continuity check
C27_Witness ==
    /\ last.op \in ClaimOps
    /\ last.err = "PopHashChainBroken"
    /\ MessageOf(last.req).grant = last.req.grant
    /\ pop_state[last.req.grant].initialized
    /\ ReceiptsOfGrant(last.req.grant) # {}
    /\ \E h \in GrantKeys \ {last.req.grant} :
          /\ pop_state[h].initialized
          /\ ReceiptsOfGrant(h) # {}
          /\ MessageOf(last.req).prev_hash = pop_state[h].last_global_hash

====
